---- MODULE Spec2Model ----
(***************************************************************************)
(* Model of andrqxa/weather-aggregator: the in-memory store, the           *)
(* aggregator, the fan-out/fan-in aggregation service, the API handlers    *)
(* and the non-overlapping refresh scheduler.                              *)
(*                                                                         *)
(* Strings that the code inspects character by character (city names) are  *)
(* sequences of one-character strings, so that strings.ToLower and         *)
(* strings.TrimSpace are computed and not assumed.                         *)
(***************************************************************************)
EXTENDS Integers, Sequences, FiniteSets, TLC

(***************************************************************************)
(* Bounds of the model.                                                    *)
(***************************************************************************)
MaxSaves == 2        \* store specification: number of Save* calls
MaxTime == 1         \* instants are 0..MaxTime
NumCallers == 2      \* scheduler specification: concurrent callers of runOnce
NumGoroutines == 3   \* cache specifications: goroutines that call the store
MaxHistSaves == 52   \* history specification: number of Save* calls
MaxSnapshots == 2    \* snapshot specification: number of LastFetchTimes calls
MaxTicks == 3        \* Start specification: number of ticks that fall due
MaxWrap == 2         \* error-mapping specification: how often an error is wrapped

(***************************************************************************)
(* Program constants.                                                      *)
(***************************************************************************)
maxHistoryEntries == 50

StatusOK == 200
StatusNotFound == 404
StatusServiceUnavailable == 503
StatusInternalServerError == 500

VARIABLES
    store,      \* InMemoryStore: current, forecast, lastFetch, histories
    now,        \* the clock read by time.Now()
    \* callers of the store
    ret,        \* what the last store operation returned to its caller
    savedCur,   \* history variable: per city, the value of the last SaveCurrent
    savedFc,    \* history variable: per (city, days), the last SaveForecast
    nSaves,     \* number of Save* calls made so far
    \* callers of the aggregator
    aggIn,      \* the list handed to the aggregator
    aggOut,     \* what it returned
    \* Service and one call of GetCurrentWeather / GetForecast
    providers,  \* s.providers
    svcPc,      \* "idle", "dispatch" (the wg.Go loop), "collect" (the range loop), "returned"
    call,       \* the arguments of the call: op, city, days
    resp,       \* per provider, what its fetch returns in this call
    spawned,    \* number of provider tasks started by the wg.Go loop
    task,       \* per provider task: "none", "fetch", "send", "exit", "done"
    wg,         \* the WaitGroup counter
    closer,     \* the goroutine of wg.Wait(); close(resultsCh): "none", "wait", "done"
    resultsCh,  \* the buffered channel's queue
    chClosed,   \* whether resultsCh is closed
    collected,  \* successes and lastErr of the range loop
    svcRet,     \* what the call returned
    arrived,    \* history variable: the results in the order the range loop received them
    invoked,    \* history variable: per provider, how often the call invoked its fetch
    rangeIdx,   \* the sequential definition: the index of `for _, p := range s.providers`
    \* API handlers
    http,       \* the last response written
    nReq,       \* number of requests served or in service
    ctxReq,     \* the handler's ctxReq: "none", "live", "done" (deadline exceeded)
    \* Scheduler and the callers of runOnce
    running,    \* Scheduler.running: 0 - idle, 1 - job in progress
    schedPc,    \* per caller of runOnce, where it is
    cityIdx,    \* per caller, the index in s.cities of the city of runForCity
    fetched,    \* per caller, the value its last service call returned
    skipped,    \* number of "skipping this tick" warnings logged
    svcCalls,   \* number of GetCurrentWeather / GetForecast calls the scheduler made
    attempted,  \* history variable: per caller, the service calls of its cycle
    \* Scheduler.Start
    ctxDone,    \* whether ctx.Done() is closed
    tickerC,    \* whether a tick is waiting in ticker.C (a channel of capacity 1)
    startPc,    \* where Start is: "select", "runOnce", "returned"
    nTicks,     \* number of ticks that have fallen due
    mainPc,     \* where main is: "none", "wait", "shutdown", "stopped", "returned"
    \* callers of the store that keep its history
    saveLog,    \* history variable: per kind, every snapshot saved, in order
    \* the store at the level of its lock, called from several goroutines
    def,        \* which of the two definitions of memory.go is built
    mu,         \* s.mu, a sync.RWMutex
    gpc,        \* per goroutine, the statement it is at
    gcall,      \* per goroutine, the call it makes
    gret,       \* per goroutine, what its call returned
    fatal,      \* the fatal error the runtime stopped the process with, "" if none
    doneSaves,  \* history variable: the Save* calls in the order they completed
    \* maps returned to callers
    heap,       \* the maps allocated for callers, by address
    held        \* the address of the map the caller holds

storeVars == <<ret, savedCur, savedFc, nSaves>>
aggVars == <<aggIn, aggOut>>
svcVars ==
    <<svcPc, call, resp, spawned, task, wg, closer, resultsCh, chClosed, collected, svcRet,
      arrived, invoked, rangeIdx>>
apiVars == <<http, nReq, ctxReq>>
schedVars == <<running, schedPc, cityIdx, fetched, skipped, svcCalls, attempted>>
startVars == <<ctxDone, tickerC, startPc, nTicks, mainPc>>
histVars == <<saveLog>>
lockVars == <<def, mu, gpc, gcall, gret, fatal, doneSaves>>
heapVars == <<heap, held>>
vars ==
    <<store, now, storeVars, aggVars, providers, svcVars, apiVars, schedVars, startVars,
      histVars, lockVars, heapVars>>

(***************************************************************************)
(* Strings.                                                                *)
(***************************************************************************)
UpperOf == ("r" :> "R") @@ ("i" :> "I") @@ ("o" :> "O") @@ ("s" :> "S") @@ ("l" :> "L")
LowerLetters == DOMAIN UpperOf
UpperLetters == {UpperOf[c] : c \in LowerLetters}

\* unicode.IsSpace on the runes of the model's alphabet
IsSpace(c) == c \in {" ", "\t", "\n", "\r"}

\* unicode.ToLower on one rune
ToLowerRune(c) ==
    IF c \in UpperLetters THEN CHOOSE l \in LowerLetters : UpperOf[l] = c ELSE c

\* strings.ToLower
ToLower(s) == [i \in 1..Len(s) |-> ToLowerRune(s[i])]

RECURSIVE TrimLeftSpace(_)
TrimLeftSpace(s) ==
    IF s # <<>> /\ IsSpace(Head(s)) THEN TrimLeftSpace(Tail(s)) ELSE s

RECURSIVE TrimRightSpace(_)
TrimRightSpace(s) ==
    IF s # <<>> /\ IsSpace(s[Len(s)])
    THEN TrimRightSpace(SubSeq(s, 1, Len(s) - 1))
    ELSE s

\* strings.TrimSpace
TrimSpace(s) == TrimRightSpace(TrimLeftSpace(s))

RECURSIVE TrimLeftCut(_)
TrimLeftCut(s) == IF s # <<>> /\ Head(s) = " " THEN TrimLeftCut(Tail(s)) ELSE s

RECURSIVE TrimRightCut(_)
TrimRightCut(s) ==
    IF s # <<>> /\ s[Len(s)] = " "
    THEN TrimRightCut(SubSeq(s, 1, Len(s) - 1))
    ELSE s

\* a normalizeCity that trims the blank only: strings.Trim(city, " ")
normalizeCityTrimBlank(city) == ToLower(TrimRightCut(TrimLeftCut(city)))

\* normalizeCity makes city key consistent (case-insensitive).
normalizeCity(city) == ToLower(TrimSpace(city))

(***************************************************************************)
(* Domain values (models.go).                                              *)
(***************************************************************************)
SourceOpenWeather == "openweather"
SourceOpenMeteo == "openmeteo"
SourceWeatherAPI == "weatherapi"

CurrentWeather(city, temp, hum, wind, src) ==
    [City |-> city, Temperature |-> temp, Humidity |-> hum,
     WindSpeed |-> wind, Source |-> src]

ZeroCurrentWeather == CurrentWeather(<<>>, 0, 0, 0, "")

ForecastItem(ts, temp, src) == [TimeStamp |-> ts, Temperature |-> temp, Source |-> src]

Forecast(city, days, items) == [City |-> city, Days |-> days, Items |-> items]

ZeroForecast == Forecast(<<>>, 0, <<>>)

(***************************************************************************)
(* InMemoryStore.  A Go map is a function on the set of keys present.      *)
(***************************************************************************)
MapPut(m, k, v) == (k :> v) @@ m

Range(f) == {f[x] : x \in DOMAIN f}

forecastKey(city, days) == [City |-> city, Days |-> days]

CurrentSnapshot(at, data) == [At |-> at, Data |-> data]

ForecastSnapshot(at, days, data) == [At |-> at, Days |-> days, Data |-> data]

NewInMemoryStore ==
    [current |-> <<>>, forecast |-> <<>>, lastFetch |-> <<>>,
     currentHistory |-> <<>>, forecastHistory |-> <<>>]

\* an append that keeps the head of a full history and drops the new entry
AppendBoundedDropNewest(h, x) ==
    LET h1 == Append(h, x)
    IN  IF Len(h1) > maxHistoryEntries THEN SubSeq(h1, 1, maxHistoryEntries) ELSE h1

\* h = append(h, x); if len(h) > maxHistoryEntries { h = h[len(h)-maxHistoryEntries:] }
AppendBounded(h, x) ==
    LET h1 == Append(h, x)
    IN  IF Len(h1) > maxHistoryEntries
        THEN SubSeq(h1, Len(h1) - maxHistoryEntries + 1, Len(h1))
        ELSE h1

\* m[k] of a map of slices: nil (empty) when the key is absent
HistoryOf(m, k) == IF k \in DOMAIN m THEN m[k] ELSE <<>>

\* a current save that writes the latest slot and the fetch time but appends
\* no snapshot
SaveCurrentNoSnapshot(s, city, w, fetchedAt) ==
    LET key == normalizeCity(city)
    IN  [s EXCEPT
           !.current = MapPut(@, key, w),
           !.lastFetch = MapPut(@, key, fetchedAt)]

SaveCurrent(s, city, w, fetchedAt) ==
    LET key == normalizeCity(city)
    IN  [s EXCEPT
           !.current = MapPut(@, key, w),
           !.lastFetch = MapPut(@, key, fetchedAt),
           !.currentHistory =
               MapPut(@, key, AppendBounded(HistoryOf(@, key),
                                            CurrentSnapshot(fetchedAt, w)))]

\* (value, ok)
GetCurrent(s, city) ==
    LET key == normalizeCity(city)
    IN  IF key \in DOMAIN s.current
        THEN <<s.current[key], TRUE>>
        ELSE <<ZeroCurrentWeather, FALSE>>

\* a forecast save that starts a new latest map holding only its own entry
SaveForecastAlone(s, city, days, f, fetchedAt) ==
    LET normalizedCity == normalizeCity(city)
        key == forecastKey(normalizedCity, days)
    IN  [s EXCEPT
           !.forecast = MapPut(<<>>, key, f),
           !.lastFetch = MapPut(@, normalizedCity, fetchedAt),
           !.forecastHistory =
               MapPut(@, key, AppendBounded(HistoryOf(@, key),
                                            ForecastSnapshot(fetchedAt, days, f)))]

SaveForecast(s, city, days, f, fetchedAt) ==
    LET normalizedCity == normalizeCity(city)
        key == forecastKey(normalizedCity, days)
    IN  [s EXCEPT
           !.forecast = MapPut(@, key, f),
           !.lastFetch = MapPut(@, normalizedCity, fetchedAt),
           !.forecastHistory =
               MapPut(@, key, AppendBounded(HistoryOf(@, key),
                                            ForecastSnapshot(fetchedAt, days, f)))]

GetForecast(s, city, days) ==
    LET key == forecastKey(normalizeCity(city), days)
    IN  IF key \in DOMAIN s.forecast
        THEN <<s.forecast[key], TRUE>>
        ELSE <<ZeroForecast, FALSE>>

\* the snapshots asked for, the newest one first
LastNNewestFirst(h, limit) ==
    LET n == IF limit <= 0 \/ limit >= Len(h) THEN Len(h) ELSE limit
    IN  [i \in 1..n |-> h[Len(h) - i + 1]]

\* the first `limit` snapshots instead of the last ones
LastNOldest(h, limit) ==
    IF Len(h) = 0 THEN <<>>
    ELSE IF limit <= 0 \/ limit >= Len(h) THEN h
    ELSE SubSeq(h, 1, limit)

\* the last `limit` snapshots, or all of them (limit <= 0 or limit >= len)
LastN(h, limit) ==
    IF Len(h) = 0 THEN <<>>
    ELSE IF limit <= 0 \/ limit >= Len(h) THEN h
    ELSE SubSeq(h, Len(h) - limit + 1, Len(h))

CurrentHistory(s, city, limit) ==
    LastN(HistoryOf(s.currentHistory, normalizeCity(city)), limit)

ForecastHistory(s, city, days, limit) ==
    LastN(HistoryOf(s.forecastHistory, forecastKey(normalizeCity(city), days)), limit)

\* a copy of the map
LastFetchTimes(s) == [city \in DOMAIN s.lastFetch |-> s.lastFetch[city]]


(***************************************************************************)
(* Providers (provider.go).  The service sees a provider only through the  *)
(* Provider interface: a fetch returns data and a nil error, or one of the *)
(* two classified errors.                                                  *)
(***************************************************************************)
None == [none |-> TRUE]
Nil == "nil"
ErrCityNotFound == "city not found"
ErrProviderUnavailable == "provider unavailable"

\* what each upstream source reports: temperature, humidity, wind speed
Reading(p) ==
    CASE p = SourceOpenMeteo -> [t |-> 10, h |-> 40, w |-> 3]
      [] p = SourceOpenWeather -> [t |-> 14, h |-> 50, w |-> 5]
      [] OTHER -> [t |-> 18, h |-> 45, w |-> 4]

\* the (data, err) pairs p.FetchCurrent(ctx, city) may return
FetchCurrent(p, city) ==
    {[data |-> ZeroCurrentWeather, err |-> ErrProviderUnavailable],
     [data |-> ZeroCurrentWeather, err |-> ErrCityNotFound],
     [data |-> CurrentWeather(city, Reading(p).t, Reading(p).h, Reading(p).w, p),
      err |-> Nil]}

\* the (data, err) pairs p.FetchForecast(ctx, city, days) may return
FetchForecast(p, city, days) ==
    {[data |-> ZeroForecast, err |-> ErrProviderUnavailable],
     [data |-> ZeroForecast, err |-> ErrCityNotFound],
     [data |-> Forecast(city, days, <<ForecastItem(0, Reading(p).t, p)>>), err |-> Nil]}

(***************************************************************************)
(* Aggregator.                                                             *)
(***************************************************************************)
AggregateCurrentWeather(results) ==
    IF Len(results) = 0 THEN ZeroCurrentWeather ELSE results[1]

AggregateForecast(results) ==
    IF Len(results) = 0 THEN ZeroForecast ELSE results[1]

(***************************************************************************)
(* Service: the parts of GetCurrentWeather / GetForecast that compute.     *)
(* op is "current" or "forecast"; the two methods differ in nothing else.  *)
(***************************************************************************)
Zero(op) == IF op = "current" THEN ZeroCurrentWeather ELSE ZeroForecast

Aggregate(op, results) ==
    IF op = "current" THEN AggregateCurrentWeather(results) ELSE AggregateForecast(results)

\* a Service that does not look at the length of s.providers
NoProvidersUnchecked(ps) == FALSE

\* if len(s.providers) == 0
NoProviders(ps) == Len(ps) = 0

\* result[T]{provider, data, err}
result(provider, data, err) == [provider |-> provider, data |-> data, err |-> err]

\* the body of `for res := range resultsCh`, on (successes, lastErr)
Collect(acc, res) ==
    IF res.err # Nil
    THEN [acc EXCEPT !.lastErr = res.err]
    ELSE [acc EXCEPT !.successes = Append(@, res.data)]

\* a return that gives up as soon as one provider has failed
ServiceReturnAnyError(op, acc) ==
    IF acc.lastErr # Nil \/ Len(acc.successes) = 0
    THEN [value |-> Zero(op), err |-> ErrProviderUnavailable, aggregated |-> None]
    ELSE [value |-> Aggregate(op, acc.successes), err |-> Nil,
          aggregated |-> [of |-> acc.successes]]

\* a return that aggregates whatever was collected
ServiceReturnUnguarded(op, acc) ==
    [value |-> Aggregate(op, acc.successes), err |-> Nil,
     aggregated |-> [of |-> acc.successes]]

\* what follows the loop: (value, err) returned, and what the aggregator
\* was called with, if it was
ServiceReturn(op, acc) ==
    IF Len(acc.successes) = 0
    THEN [value |-> Zero(op), err |-> ErrProviderUnavailable, aggregated |-> None]
    ELSE [value |-> Aggregate(op, acc.successes), err |-> Nil,
          aggregated |-> [of |-> acc.successes]]

RECURSIVE CollectAll(_, _)
CollectAll(acc, rs) ==
    IF rs = <<>> THEN acc ELSE CollectAll(Collect(acc, Head(rs)), Tail(rs))

\* the whole call, given the results in the order they arrive on resultsCh
ServiceCall(op, ps, rs) ==
    IF NoProviders(ps)
    THEN [value |-> Zero(op), err |-> ErrProviderUnavailable, aggregated |-> None]
    ELSE ServiceReturn(op, CollectAll([successes |-> <<>>, lastErr |-> Nil], rs))

\* fmt.Errorf("%s: %w", prefix, err): an error that wraps err
Wrapf(prefix, err) == prefix \o ": " \o err

Sentinels == {ErrCityNotFound, ErrProviderUnavailable}

\* errors that are neither of the two classified ones
OtherErrors == {"context deadline exceeded", "unexpected EOF"}

WrapPrefixes == {"openmeteo", "fetch current"}

\* the errors wrapped at most n times
RECURSIVE ErrorsWrapped(_)
ErrorsWrapped(n) ==
    IF n = 0
    THEN Sentinels \cup OtherErrors
    ELSE LET E == ErrorsWrapped(n - 1)
         IN  E \cup {Wrapf(q, e) : q \in WrapPrefixes, e \in E}

ErrorValues == ErrorsWrapped(MaxWrap)

\* errors.Unwrap(err): the error err wraps, nil if none
Unwrap(err) ==
    LET inner == {e \in ErrorValues : \E q \in WrapPrefixes : err = Wrapf(q, e)}
    IN  IF inner = {} THEN Nil ELSE CHOOSE e \in inner : TRUE

\* a comparison of the error values themselves
errorsSame(err, target) == err = target

\* errors.Is(err, target): err or an error in its chain is target
RECURSIVE errorsIs(_, _)
errorsIs(err, target) ==
    IF err = Nil THEN FALSE ELSE err = target \/ errorsIs(Unwrap(err), target)

\* fiber's ErrorHandler of main: any unhandled error is answered with a 500
ErrorHandler(err) ==
    [status |-> StatusInternalServerError, error |-> "internal server error"]

\* mapServiceError converts domain/service errors to HTTP responses.
mapServiceError(err) ==
    CASE errorsIs(err, ErrCityNotFound) ->
            [status |-> StatusNotFound, error |-> "city not found"]
      [] errorsIs(err, ErrProviderUnavailable) ->
            [status |-> StatusServiceUnavailable,
             error |-> "weather providers are unavailable"]
      [] OTHER -> [status |-> StatusInternalServerError, error |-> "internal server error"]

(***************************************************************************)
(* Initial values of the parts of the state.                               *)
(***************************************************************************)
InitAggVars ==
    /\ aggIn = [kind |-> "none", list |-> <<>>]
    /\ aggOut = None

InitSvcVars ==
    /\ svcPc = "idle"
    /\ call = None
    /\ resp = <<>>
    /\ spawned = 0
    /\ task = [i \in 1..Len(providers) |-> "none"]
    /\ wg = 0
    /\ closer = "none"
    /\ resultsCh = <<>>
    /\ chClosed = FALSE
    /\ collected = [successes |-> <<>>, lastErr |-> Nil]
    /\ svcRet = None
    /\ arrived = <<>>
    /\ invoked = [i \in 1..Len(providers) |-> 0]
    /\ rangeIdx = 0

InitApiVars ==
    /\ http = None
    /\ nReq = 0
    /\ ctxReq = "none"

Callers == 1..NumCallers

InitSchedVars ==
    /\ running = 0
    /\ schedPc = [t \in Callers |-> "idle"]
    /\ cityIdx = [t \in Callers |-> 0]
    /\ fetched = [t \in Callers |-> None]
    /\ skipped = 0
    /\ svcCalls = 0
    /\ attempted = [t \in Callers |-> <<>>]

\* Start has not been called
InitStartVars ==
    /\ ctxDone = FALSE
    /\ tickerC = FALSE
    /\ startPc = "none"
    /\ nTicks = 0
    /\ mainPc = "none"

InitHistVars ==
    saveLog = [current |-> <<>>, forecast |-> <<>>]

\* the zero value of sync.RWMutex
ZeroRWMutex ==
    [w |-> 0, readerCount |-> 0, readerWait |-> 0, readerSem |-> 0, writerSem |-> 0]

Goroutines == 1..NumGoroutines

\* no goroutine has called the store
InitLockVars ==
    /\ mu = ZeroRWMutex
    /\ gpc = [g \in Goroutines |-> "idle"]
    /\ gcall = [g \in Goroutines |-> None]
    /\ gret = [g \in Goroutines |-> None]
    /\ fatal = ""
    /\ doneSaves = <<>>

\* no map has been handed to a caller
InitHeapVars ==
    /\ heap = <<>>
    /\ held = None

(***************************************************************************)
(* The store driven by arbitrary callers: every operation of the store is  *)
(* one atomic step (the whole body runs under s.mu).  Cities are given in  *)
(* arbitrary spellings of a few base names.                                *)
(***************************************************************************)
Rio == <<"r", "i", "o">>
Oslo == <<"o", "s", "l", "o">>
Bases == {Rio, Oslo}

ToUpperRune(c) == IF c \in LowerLetters THEN UpperOf[c] ELSE c

Capitalised(b) == [i \in 1..Len(b) |-> IF i = 1 THEN ToUpperRune(b[i]) ELSE b[i]]
Capitals(b) == [i \in 1..Len(b) |-> ToUpperRune(b[i])]

\* spellings of a base: they differ only in letter case and in surrounding
\* whitespace
Spellings(b) ==
    {b,
     Capitals(b),
     <<" ">> \o Capitalised(b) \o <<" ", " ">>,
     <<"\t">> \o b \o <<"\n">>}

DaysSet == {1, 3}

Weathers ==
    {CurrentWeather(Rio, 10, 40, 3, SourceOpenMeteo),
     CurrentWeather(Rio, 14, 50, 5, SourceOpenWeather)}

Forecasts ==
    {Forecast(Rio, 1, <<ForecastItem(0, 10, SourceOpenMeteo)>>),
     Forecast(Rio, 1, <<ForecastItem(0, 14, SourceOpenWeather)>>)}

InitStoreVars ==
    /\ ret = [op |-> "none"]
    /\ savedCur = [b \in Bases |-> None]
    /\ savedFc = [k \in Bases \X DaysSet |-> None]
    /\ nSaves = 0

InitStore ==
    /\ store = NewInMemoryStore
    /\ now = 0
    /\ InitStoreVars
    /\ InitAggVars
    /\ providers = <<>>
    /\ InitSvcVars
    /\ InitApiVars
    /\ InitSchedVars
    /\ InitStartVars
    /\ InitHistVars
    /\ def = "second"
    /\ InitLockVars
    /\ InitHeapVars

\* time.Now(): the instants the clock may show when it is read next
TimeNow == now..MaxTime

\* the caller spells the city otherwise than the Save* call just before did
Respelled(b, city) ==
    /\ ret.op \in {"SaveCurrent", "SaveForecast"}
    /\ ret.base = b
    /\ ret.city # city

StoreSaveCurrent ==
    \E b \in Bases, w \in Weathers, t \in TimeNow :
      \E city \in Spellings(b) :
        /\ nSaves < MaxSaves
        /\ now' = t
        /\ store' = SaveCurrent(store, city, w, t)
        /\ ret' = [op |-> "SaveCurrent", base |-> b, city |-> city]
        /\ savedCur' = [savedCur EXCEPT ![b] = w]
        /\ nSaves' = nSaves + 1
        /\ UNCHANGED <<savedFc, aggVars, providers, startVars, histVars, lockVars,
                   heapVars, svcVars, apiVars, schedVars>>

StoreGetCurrent ==
    \E b \in Bases :
      \E city \in Spellings(b) :
        /\ ret' = [op |-> "GetCurrent", base |-> b,
                   respelled |-> Respelled(b, city),
                   value |-> GetCurrent(store, city)]
        /\ UNCHANGED <<store, now, savedCur, savedFc, nSaves, aggVars, providers, startVars, histVars, lockVars,
                   heapVars, svcVars, apiVars, schedVars>>

StoreSaveForecast ==
    \E b \in Bases, days \in DaysSet, f \in Forecasts, t \in TimeNow :
      \E city \in Spellings(b) :
        /\ nSaves < MaxSaves
        /\ now' = t
        /\ store' = SaveForecast(store, city, days, f, t)
        /\ ret' = [op |-> "SaveForecast", base |-> b, city |-> city, days |-> days]
        /\ savedFc' = [savedFc EXCEPT ![<<b, days>>] = f]
        /\ nSaves' = nSaves + 1
        /\ UNCHANGED <<savedCur, aggVars, providers, startVars, histVars, lockVars,
                   heapVars, svcVars, apiVars, schedVars>>

StoreGetForecast ==
    \E b \in Bases, days \in DaysSet :
      \E city \in Spellings(b) :
        /\ ret' = [op |-> "GetForecast", base |-> b, days |-> days,
                   respelled |-> Respelled(b, city),
                   value |-> GetForecast(store, city, days)]
        /\ UNCHANGED <<store, now, savedCur, savedFc, nSaves, aggVars, providers, startVars, histVars, lockVars,
                   heapVars, svcVars, apiVars, schedVars>>

NextStore ==
    \/ StoreSaveCurrent
    \/ StoreGetCurrent
    \/ StoreSaveForecast
    \/ StoreGetForecast

SpecStore == InitStore /\ [][NextStore]_vars

(***************************************************************************)
(* C10: cache key normalization.  A GetCurrent with any spelling of a city *)
(* returns the value of the last SaveCurrent made with any spelling of     *)
(* that city (likewise GetForecast for the same day count), and the        *)
(* latest maps and the history maps hold one slot per city saved, never    *)
(* one per spelling.                                                       *)
(***************************************************************************)
SavedCities == {b \in Bases : savedCur[b] # None}
SavedForecastKeys == {k \in Bases \X DaysSet : savedFc[k] # None}

C10_KeyNormalization ==
    /\ ret.op = "GetCurrent" =>
          ret.value = IF savedCur[ret.base] = None
                      THEN <<ZeroCurrentWeather, FALSE>>
                      ELSE <<savedCur[ret.base], TRUE>>
    /\ ret.op = "GetForecast" =>
          ret.value = IF savedFc[<<ret.base, ret.days>>] = None
                      THEN <<ZeroForecast, FALSE>>
                      ELSE <<savedFc[<<ret.base, ret.days>>], TRUE>>
    /\ Cardinality(DOMAIN store.current) = Cardinality(SavedCities)
    /\ Cardinality(DOMAIN store.currentHistory) = Cardinality(SavedCities)
    /\ Cardinality(DOMAIN store.forecast) = Cardinality(SavedForecastKeys)
    /\ Cardinality(DOMAIN store.forecastHistory) = Cardinality(SavedForecastKeys)

\* a value saved under one spelling was read back under another one, after
\* a second save of the same city under a third spelling
C10_Witness ==
    /\ ret.op = "GetCurrent"
    /\ ret.respelled
    /\ ret.value[2]
    /\ nSaves = 2
    /\ Len(CurrentHistory(store, ret.base, 0)) = 2

(***************************************************************************)
(* One aggregation call at the level of its goroutines, made by an API     *)
(* handler on a cache miss.                                                *)
(***************************************************************************)
MaxRequests == 2

AllProviders == <<SourceOpenMeteo, SourceOpenWeather, SourceWeatherAPI>>

\* the provider lists NewService may be given: initProviders makes the ones
\* that start with openmeteo; the empty list is a Service without providers
ProviderLists ==
    {<<>>,
     <<SourceOpenMeteo>>,
     <<SourceOpenMeteo, SourceOpenWeather>>,
     <<SourceOpenMeteo, SourceWeatherAPI>>,
     <<SourceOpenMeteo, SourceOpenWeather, SourceWeatherAPI>>}

RequestCities == {Capitalised(Rio)}
RequestDays == {3}

Fetch(c, p) ==
    IF c.op = "current" THEN FetchCurrent(p, c.city) ELSE FetchForecast(p, c.city, c.days)

\* a handler that does not find what the cache holds
CacheGetMiss(c) == <<Zero(c.op), FALSE>>

\* the cache lookup of a handler: (value, ok)
CacheGet(c) ==
    IF c.op = "current" THEN GetCurrent(store, c.city) ELSE GetForecast(store, c.city, c.days)

\* the save of a handler after a successful call
CacheSave(c, v, fetchedAt) ==
    IF c.op = "current"
    THEN SaveCurrent(store, c.city, v, fetchedAt)
    ELSE SaveForecast(store, c.city, c.days, v, fetchedAt)

InitService ==
    /\ store = NewInMemoryStore
    /\ now = 0
    /\ InitStoreVars
    /\ InitAggVars
    /\ providers \in ProviderLists
    /\ InitSvcVars
    /\ InitApiVars
    /\ InitSchedVars
    /\ InitStartVars
    /\ InitHistVars
    /\ def = "second"
    /\ InitLockVars
    /\ InitHeapVars

\* GET /weather/current and GET /weather/forecast up to the service call:
\* the cache is tried first; on a miss the service is called
HandlerRequest ==
    \E op \in {"current", "forecast"}, city \in RequestCities, days \in RequestDays :
      LET c == [op |-> op, city |-> city, days |-> days]
          hit == CacheGet(c)
      IN  /\ svcPc = "idle"
          /\ nReq < MaxRequests
          /\ nReq' = nReq + 1
          /\ IF hit[2]
             THEN /\ http' = [status |-> StatusOK, body |-> hit[1]]
                  /\ UNCHANGED <<svcVars, ctxReq>>
             ELSE /\ call' = c
                  /\ ctxReq' = "live"
                  /\ resp' \in {r \in [1..Len(providers) -> UNION {Fetch(c, q) : q \in Range(providers)}] :
                                 \A i \in 1..Len(providers) : r[i] \in Fetch(c, providers[i])}
                  /\ collected' = [successes |-> <<>>, lastErr |-> Nil]
                  /\ arrived' = <<>>
                  /\ invoked' = [i \in 1..Len(providers) |-> 0]
                  /\ UNCHANGED rangeIdx
                  /\ IF NoProviders(providers)
                     THEN /\ svcRet' = ServiceCall(op, providers, <<>>)
                          /\ svcPc' = "returned"
                          /\ UNCHANGED <<spawned, task, wg, closer, resultsCh, chClosed>>
                     ELSE /\ svcPc' = "dispatch"
                          /\ svcRet' = None
                          /\ resultsCh' = <<>>
                          /\ chClosed' = FALSE
                          /\ spawned' = 0
                          /\ task' = [i \in 1..Len(providers) |-> "none"]
                          /\ wg' = 0
                          /\ closer' = "none"
                  /\ http' = None
          /\ UNCHANGED <<store, now, storeVars, aggVars, providers, startVars, histVars, lockVars,
                   heapVars, schedVars>>

\* one round of `for _, prov := range s.providers { wg.Go(...) }`
SvcSpawn ==
    /\ svcPc = "dispatch"
    /\ spawned < Len(providers)
    /\ spawned' = spawned + 1
    /\ task' = [task EXCEPT ![spawned + 1] = "fetch"]
    /\ wg' = wg + 1
    /\ UNCHANGED <<store, now, storeVars, aggVars, providers, startVars, histVars, lockVars,
                   heapVars, apiVars, schedVars,
                   svcPc, call, resp, closer, resultsCh, chClosed, collected, svcRet, arrived,
                   invoked, rangeIdx>>

\* go func() { wg.Wait(); close(resultsCh) }(), after the loop
SvcSpawnCloser ==
    /\ svcPc = "dispatch"
    /\ spawned = Len(providers)
    /\ closer' = "wait"
    /\ svcPc' = "collect"
    /\ UNCHANGED <<store, now, storeVars, aggVars, providers, startVars, histVars, lockVars,
                   heapVars, apiVars, schedVars,
                   call, resp, spawned, task, wg, resultsCh, chClosed, collected, svcRet, arrived,
                   invoked, rangeIdx>>

\* what a fetch that would return r returns under the context ctx: a
\* provider whose HTTP request is bound to ctx fails once ctx is done, a
\* provider that does not look at ctx returns what it returns
FetchUnder(ctx, op, r) ==
    IF ctx = "done"
    THEN {r, [data |-> Zero(op), err |-> ErrProviderUnavailable]}
    ELSE {r}

\* w, err := p.FetchCurrent(ctx, city)
TaskFetch(i) ==
    /\ task[i] = "fetch"
    /\ task' = [task EXCEPT ![i] = "send"]
    /\ \E r \in FetchUnder(ctxReq, call.op, resp[i]) : resp' = [resp EXCEPT ![i] = r]
    /\ invoked' = [invoked EXCEPT ![i] = @ + 1]
    /\ UNCHANGED <<store, now, storeVars, aggVars, providers, startVars, histVars, lockVars,
                   heapVars, apiVars, schedVars,
                   svcPc, call, spawned, wg, closer, resultsCh, chClosed, collected, svcRet, arrived,
                   rangeIdx>>

\* resultsCh <- result{provider: p, data: w, err: err}; blocks while the buffer is full
TaskSend(i) ==
    /\ task[i] = "send"
    /\ ~chClosed
    /\ Len(resultsCh) < Len(providers)
    /\ resultsCh' = Append(resultsCh, result(providers[i], resp[i].data, resp[i].err))
    /\ task' = [task EXCEPT ![i] = "exit"]
    /\ UNCHANGED <<store, now, storeVars, aggVars, providers, startVars, histVars, lockVars,
                   heapVars, apiVars, schedVars,
                   svcPc, call, resp, spawned, wg, closer, chClosed, collected, svcRet, arrived,
                   invoked, rangeIdx>>

\* the task's function returns: wg.Go calls Done
TaskExit(i) ==
    /\ task[i] = "exit"
    /\ task' = [task EXCEPT ![i] = "done"]
    /\ wg' = wg - 1
    /\ UNCHANGED <<store, now, storeVars, aggVars, providers, startVars, histVars, lockVars,
                   heapVars, apiVars, schedVars,
                   svcPc, call, resp, spawned, closer, resultsCh, chClosed, collected, svcRet, arrived,
                   invoked, rangeIdx>>

\* a closer that does not wait for the tasks
CloserCloseEarly ==
    /\ closer = "wait"
    /\ chClosed' = TRUE
    /\ closer' = "done"
    /\ UNCHANGED <<store, now, storeVars, aggVars, providers, startVars, histVars, lockVars,
                   heapVars, apiVars, schedVars,
                   svcPc, call, resp, spawned, task, wg, resultsCh, collected, svcRet, arrived,
                   invoked, rangeIdx>>

\* wg.Wait() returns; close(resultsCh)
CloserClose ==
    /\ closer = "wait"
    /\ wg = 0
    /\ chClosed' = TRUE
    /\ closer' = "done"
    /\ UNCHANGED <<store, now, storeVars, aggVars, providers, startVars, histVars, lockVars,
                   heapVars, apiVars, schedVars,
                   svcPc, call, resp, spawned, task, wg, resultsCh, collected, svcRet, arrived,
                   invoked, rangeIdx>>

\* one iteration of `for res := range resultsCh`
SvcReceive ==
    /\ svcPc = "collect"
    /\ resultsCh # <<>>
    /\ collected' = Collect(collected, Head(resultsCh))
    /\ resultsCh' = Tail(resultsCh)
    /\ arrived' = Append(arrived, Head(resultsCh))
    /\ UNCHANGED <<store, now, storeVars, aggVars, providers, startVars, histVars, lockVars,
                   heapVars, apiVars, schedVars,
                   svcPc, call, resp, spawned, task, wg, closer, chClosed, svcRet,
                   invoked, rangeIdx>>

\* the range loop ends on the closed and drained channel; the call returns
SvcReturn ==
    /\ svcPc = "collect"
    /\ resultsCh = <<>>
    /\ chClosed
    /\ svcRet' = ServiceReturn(call.op, collected)
    /\ svcPc' = "returned"
    /\ UNCHANGED <<store, now, storeVars, aggVars, providers, startVars, histVars, lockVars,
                   heapVars, apiVars, schedVars,
                   call, resp, spawned, task, wg, closer, resultsCh, chClosed, collected, arrived,
                   invoked, rangeIdx>>

\* the call has returned and its goroutines have ended: its locals are dead
SvcFrameGone ==
    /\ svcPc' = "idle"
    /\ call' = None
    /\ resp' = <<>>
    /\ spawned' = 0
    /\ task' = [i \in 1..Len(providers) |-> "none"]
    /\ wg' = 0
    /\ closer' = "none"
    /\ resultsCh' = <<>>
    /\ chClosed' = FALSE
    /\ collected' = [successes |-> <<>>, lastErr |-> Nil]
    /\ svcRet' = None
    /\ arrived' = <<>>

\* the deadline of context.WithTimeout(context.Background(), cfg.RequestTimeout)
\* is reached while the handler has not returned
DeadlineExceeded ==
    /\ ctxReq = "live"
    /\ ctxReq' = "done"
    /\ UNCHANGED <<store, now, storeVars, aggVars, providers, startVars, histVars, lockVars,
                   heapVars, svcVars, schedVars, http, nReq>>

\* a handler that saves what the service returned, error or not
HandlerRespondSavesAnyway ==
    /\ svcPc = "returned"
    /\ \E t \in TimeNow :
          /\ now' = t
          /\ store' = CacheSave(call, svcRet.value, t)
          /\ http' = IF svcRet.err # Nil THEN mapServiceError(svcRet.err)
                     ELSE [status |-> StatusOK, body |-> svcRet.value]
    /\ SvcFrameGone
    /\ ctxReq' = "none"
    /\ UNCHANGED <<storeVars, aggVars, providers, startVars, histVars, lockVars,
                   heapVars, nReq, schedVars, invoked, rangeIdx>>

\* the handler after the service call: an error is mapped to a response,
\* a value is saved with the current time and returned
HandlerRespond ==
    /\ svcPc = "returned"
    /\ IF svcRet.err # Nil
       THEN /\ http' = mapServiceError(svcRet.err)
            /\ UNCHANGED <<store, now>>
       ELSE \E t \in TimeNow :
            /\ now' = t
            /\ store' = CacheSave(call, svcRet.value, t)
            /\ http' = [status |-> StatusOK, body |-> svcRet.value]
    /\ SvcFrameGone
    /\ ctxReq' = "none"
    /\ UNCHANGED <<storeVars, aggVars, providers, startVars, histVars, lockVars,
                   heapVars, nReq, schedVars, invoked, rangeIdx>>

NextService ==
    \/ HandlerRequest
    \/ SvcSpawn
    \/ SvcSpawnCloser
    \/ \E i \in 1..Len(providers) : TaskFetch(i)
    \/ \E i \in 1..Len(providers) : TaskSend(i)
    \/ \E i \in 1..Len(providers) : TaskExit(i)
    \/ CloserClose
    \/ SvcReceive
    \/ SvcReturn
    \/ DeadlineExceeded
    \/ HandlerRespond

SpecService == InitService /\ [][NextService]_vars

(***************************************************************************)
(* Properties of one aggregation call.                                     *)
(***************************************************************************)
Configured == 1..Len(providers)
Succeeded == {i \in Configured : resp[i].err = Nil}
Failed == {i \in Configured : resp[i].err \in {ErrProviderUnavailable, ErrCityNotFound}}
SuccessData == {resp[i].data : i \in Succeeded}

\* the results as they arrive when the tasks send in the order of s.providers
InProviderOrder == [i \in Configured |-> result(providers[i], resp[i].data, resp[i].err)]

\* the positions in `arrived` of the results with and without an error
ArrivedWith(errs) == {k \in 1..Len(arrived) : arrived[k].err \in errs}

(***************************************************************************)
(* C3: partial failure tolerance.  When at least one provider succeeds and *)
(* every other one fails, the call returns a nil error and a value taken   *)
(* from the successful results alone: the aggregator is given exactly the  *)
(* data of the providers that succeeded, whatever the order of completion. *)
(***************************************************************************)
C3_PartialFailureTolerated ==
    (svcPc = "returned" /\ Succeeded # {} /\ Succeeded \cup Failed = Configured) =>
        /\ svcRet.err = Nil
        /\ svcRet.value \in SuccessData
        /\ svcRet.aggregated # None
        /\ Range(svcRet.aggregated.of) = SuccessData
        /\ Len(svcRet.aggregated.of) = Cardinality(Succeeded)

\* three providers, one success that arrived last, after a ProviderUnavailable
\* and a CityNotFound
C3_Witness ==
    /\ svcPc = "returned"
    /\ Len(providers) = 3
    /\ Cardinality(Succeeded) = 1
    /\ Len(arrived) = 3
    /\ arrived[3].err = Nil
    /\ {arrived[1].err, arrived[2].err} = {ErrProviderUnavailable, ErrCityNotFound}
    /\ svcRet.err = Nil

(***************************************************************************)
(* C4: total failure.  When every configured provider fails the call       *)
(* returns ErrProviderUnavailable with the zero value and the aggregator   *)
(* is not called; the aggregator is never called with an empty list and    *)
(* no zero-valued record is returned with a nil error.                     *)
(***************************************************************************)
C4_TotalFailure ==
    svcPc = "returned" =>
        /\ Failed = Configured =>
              /\ svcRet.err = ErrProviderUnavailable
              /\ svcRet.value = Zero(call.op)
              /\ svcRet.aggregated = None
        /\ svcRet.aggregated # None => Len(svcRet.aggregated.of) > 0
        /\ svcRet.err = Nil => svcRet.value # Zero(call.op)

\* three providers failed, in both ways
C4_Witness ==
    /\ svcPc = "returned"
    /\ Len(providers) = 3
    /\ Failed = Configured
    /\ Len(arrived) = 3
    /\ {arrived[k].err : k \in 1..3} = {ErrProviderUnavailable, ErrCityNotFound}
    /\ svcRet.err = ErrProviderUnavailable

(***************************************************************************)
(* C5: with no provider configured the call fails at once with             *)
(* ErrProviderUnavailable: no task is started, no closer goroutine, no     *)
(* message is put on a channel, and the call never waits in the loops.     *)
(***************************************************************************)
C5_NoProvidersFailsAtOnce ==
    Len(providers) = 0 =>
        /\ svcPc \in {"idle", "returned"}
        /\ spawned = 0
        /\ wg = 0
        /\ closer = "none"
        /\ resultsCh = <<>>
        /\ ~chClosed
        /\ arrived = <<>>
        /\ svcPc = "returned" =>
              /\ svcRet.err = ErrProviderUnavailable
              /\ svcRet.value = Zero(call.op)

C5_Witness ==
    /\ Len(providers) = 0
    /\ svcPc = "returned"
    /\ svcRet.err = ErrProviderUnavailable

(***************************************************************************)
(* C7: independence of the completion order.  For fixed per-provider       *)
(* responses the call returns the same value under every interleaving of   *)
(* the sends, hence the value it returns when the tasks send in the order  *)
(* of the provider list.                                                   *)
(***************************************************************************)
C7_CompletionOrderIndependent ==
    svcPc = "returned" =>
        /\ svcRet.value = ServiceCall(call.op, providers, InProviderOrder).value
        /\ svcRet.err = ServiceCall(call.op, providers, InProviderOrder).err

(***************************************************************************)
(* C9: when every configured provider fails with ErrCityNotFound the call  *)
(* returns ErrCityNotFound and the handler answers 404, not 503.           *)
(***************************************************************************)
C9_CityNotFoundSurfaces ==
    (svcPc = "returned" /\ Configured # {}
        /\ \A i \in Configured : resp[i].err = ErrCityNotFound) =>
        /\ svcRet.err = ErrCityNotFound
        /\ mapServiceError(svcRet.err).status = StatusNotFound

\* the goroutine-level call returns what ServiceCall computes from the
\* order of arrival
ServiceCallSummarises ==
    svcPc = "returned" => svcRet = ServiceCall(call.op, providers, arrived)

(***************************************************************************)
(* The aggregator called on arbitrary lists of successful results.         *)
(***************************************************************************)
MaxLen == 3

AggCurrentInputs ==
    {CurrentWeather(Rio, Reading(q).t, Reading(q).h, Reading(q).w, q) : q \in Range(AllProviders)}

AggForecastInputs ==
    {Forecast(Rio, 1, <<ForecastItem(0, Reading(q).t, q)>>) : q \in Range(AllProviders)}

ListsOf(S) == UNION {[1..n -> S] : n \in 0..MaxLen}

InitAgg ==
    /\ store = NewInMemoryStore
    /\ now = 0
    /\ InitStoreVars
    /\ aggIn \in {[kind |-> "current", list |-> l] : l \in ListsOf(AggCurrentInputs)}
               \cup {[kind |-> "forecast", list |-> l] : l \in ListsOf(AggForecastInputs)}
    /\ aggOut = None
    /\ providers = <<>>
    /\ InitSvcVars
    /\ InitApiVars
    /\ InitSchedVars
    /\ InitStartVars
    /\ InitHistVars
    /\ def = "second"
    /\ InitLockVars
    /\ InitHeapVars

AggCurrentCall ==
    /\ aggIn.kind = "current"
    /\ aggOut = None
    /\ aggOut' = [value |-> AggregateCurrentWeather(aggIn.list)]
    /\ UNCHANGED <<store, now, storeVars, aggIn, providers, startVars, histVars, lockVars,
                   heapVars, svcVars, apiVars, schedVars>>

AggForecastCall ==
    /\ aggIn.kind = "forecast"
    /\ aggOut = None
    /\ aggOut' = [value |-> AggregateForecast(aggIn.list)]
    /\ UNCHANGED <<store, now, storeVars, aggIn, providers, startVars, histVars, lockVars,
                   heapVars, svcVars, apiVars, schedVars>>

NextAgg ==
    \/ AggCurrentCall
    \/ AggForecastCall

SpecAgg == InitAgg /\ [][NextAgg]_vars

\* the lists with the same elements in another order
Reorderings(l) ==
    {[i \in 1..Len(l) |-> l[f[i]]] :
        f \in {g \in [1..Len(l) -> 1..Len(l)] : \A i, j \in 1..Len(l) : g[i] = g[j] => i = j}}

\* the numeric fields of a record
NumericCurrent(w) == <<w.Temperature, w.Humidity, w.WindSpeed>>
NumericForecast(f) == [i \in 1..Len(f.Items) |-> f.Items[i].Temperature]

RECURSIVE SumOver(_, _)
SumOver(l, field) == IF l = <<>> THEN 0 ELSE Head(l)[field] + SumOver(Tail(l), field)

(***************************************************************************)
(* C6: determinism of merge.  The aggregator returns the same numeric      *)
(* values for a list of successful results and for every reordering of it. *)
(***************************************************************************)
C6_MergeOrderIndependent ==
    aggOut # None =>
        \A l \in Reorderings(aggIn.list) :
            IF aggIn.kind = "current"
            THEN NumericCurrent(AggregateCurrentWeather(l)) = NumericCurrent(aggOut.value)
            ELSE NumericForecast(AggregateForecast(l)) = NumericForecast(aggOut.value)

(***************************************************************************)
(* C8: with two or more sources the numeric fields of the aggregated       *)
(* current weather are the arithmetic means over the sources (the integer  *)
(* humidity to within rounding).                                           *)
(***************************************************************************)
C8_NumericFieldsAreMeans ==
    (aggOut # None /\ aggIn.kind = "current" /\ Len(aggIn.list) >= 2) =>
        LET n == Len(aggIn.list)
            v == aggOut.value
        IN  /\ n * v.Temperature = SumOver(aggIn.list, "Temperature")
            /\ n * v.WindSpeed = SumOver(aggIn.list, "WindSpeed")
            /\ n * v.Humidity > SumOver(aggIn.list, "Humidity") - n
            /\ n * v.Humidity < SumOver(aggIn.list, "Humidity") + n

(***************************************************************************)
(* The scheduler: runOnce called by several callers at once, each cycle    *)
(* refreshing the store for the configured cities through the service.     *)
(***************************************************************************)
cities == <<Capitalised(Rio), Capitalised(Oslo)>>
defaultDays == 1

\* the providers of a deployment without API keys
SchedulerProviders == <<SourceOpenMeteo>>

\* the results of one call as they may arrive: any responses, in any order
Arrivals(c) ==
    UNION {Reorderings([i \in 1..Len(providers) |->
                           result(providers[i], r[i].data, r[i].err)]) :
             r \in {q \in [1..Len(providers) -> UNION {Fetch(c, pr) : pr \in Range(providers)}] :
                      \A i \in 1..Len(providers) : q[i] \in Fetch(c, providers[i])}}

\* what s.service.GetCurrentWeather / GetForecast may return to the scheduler
ServiceOutcomes(c) == {ServiceCall(c.op, providers, rs) : rs \in Arrivals(c)}

\* atomic.CompareAndSwapInt32 that swaps whatever the value is
CompareAndSwapAlways(v, old, new) == [swapped |-> TRUE, value |-> new]

\* atomic.CompareAndSwapInt32(&v, old, new): whether it swapped, and v after it
CompareAndSwapInt32(v, old, new) ==
    IF v = old THEN [swapped |-> TRUE, value |-> new] ELSE [swapped |-> FALSE, value |-> v]

\* where a caller is while it is past the guard of runOnce
InCycle == {"current", "saveCurrent", "forecast", "saveForecast", "defer"}

InitSched ==
    /\ store = NewInMemoryStore
    /\ now = 0
    /\ InitStoreVars
    /\ InitAggVars
    /\ providers = SchedulerProviders
    /\ InitSvcVars
    /\ InitApiVars
    /\ InitSchedVars
    /\ InitStartVars
    /\ InitHistVars
    /\ def = "second"
    /\ InitLockVars
    /\ InitHeapVars

\* a runOnce whose deferred reset of the flag is registered before the guard
RunOnceSkipResets(t) ==
    /\ schedPc[t] = "idle"
    /\ ~CompareAndSwapInt32(running, 0, 1).swapped
    /\ running' = 0
    /\ skipped' = skipped + 1
    /\ schedPc' = [schedPc EXCEPT ![t] = "skipped"]
    /\ UNCHANGED <<store, now, storeVars, aggVars, providers, startVars, histVars, lockVars,
                   heapVars, svcVars, apiVars,
                   cityIdx, fetched, svcCalls, attempted>>

\* runOnce when the guard fails: the warning is logged and the call returns
RunOnceSkip(t) ==
    /\ schedPc[t] = "idle"
    /\ ~CompareAndSwapInt32(running, 0, 1).swapped
    /\ running' = CompareAndSwapInt32(running, 0, 1).value
    /\ skipped' = skipped + 1
    /\ schedPc' = [schedPc EXCEPT ![t] = "skipped"]
    /\ UNCHANGED <<store, now, storeVars, aggVars, providers, startVars, histVars, lockVars,
                   heapVars, svcVars, apiVars,
                   cityIdx, fetched, svcCalls, attempted>>

\* runOnce when the guard succeeds: the reset is deferred and the loop over
\* s.cities begins
RunOnceEnter(t) ==
    /\ schedPc[t] = "idle"
    /\ CompareAndSwapInt32(running, 0, 1).swapped
    /\ running' = CompareAndSwapInt32(running, 0, 1).value
    /\ IF Len(cities) = 0
       THEN /\ schedPc' = [schedPc EXCEPT ![t] = "defer"]
            /\ UNCHANGED cityIdx
       ELSE /\ schedPc' = [schedPc EXCEPT ![t] = "current"]
            /\ cityIdx' = [cityIdx EXCEPT ![t] = 1]
    /\ attempted' = [attempted EXCEPT ![t] = <<>>]
    /\ UNCHANGED <<store, now, storeVars, aggVars, providers, startVars, histVars, lockVars,
                   heapVars, svcVars, apiVars,
                   fetched, skipped, svcCalls>>

\* a runForCity that gives the cycle up when the current weather fails
RunForCityGetCurrentAborts(t) ==
    /\ schedPc[t] = "current"
    /\ \E o \in ServiceOutcomes([op |-> "current", city |-> cities[cityIdx[t]],
                                  days |-> defaultDays]) :
          IF o.err # Nil
          THEN /\ schedPc' = [schedPc EXCEPT ![t] = "defer"]
               /\ UNCHANGED fetched
          ELSE /\ schedPc' = [schedPc EXCEPT ![t] = "saveCurrent"]
               /\ fetched' = [fetched EXCEPT ![t] = o.value]
    /\ svcCalls' = svcCalls + 1
    /\ attempted' = [attempted EXCEPT ![t] = Append(@, <<cityIdx[t], "current">>)]
    /\ UNCHANGED <<store, now, storeVars, aggVars, providers, startVars, histVars, lockVars,
                   heapVars, svcVars, apiVars, running, cityIdx, skipped>>

\* runForCity: current, err := s.service.GetCurrentWeather(ctx, city)
RunForCityGetCurrent(t) ==
    /\ schedPc[t] = "current"
    /\ \E o \in ServiceOutcomes([op |-> "current", city |-> cities[cityIdx[t]],
                                  days |-> defaultDays]) :
          IF o.err # Nil
          THEN /\ schedPc' = [schedPc EXCEPT ![t] = "forecast"]
               /\ UNCHANGED fetched
          ELSE /\ schedPc' = [schedPc EXCEPT ![t] = "saveCurrent"]
               /\ fetched' = [fetched EXCEPT ![t] = o.value]
    /\ svcCalls' = svcCalls + 1
    /\ attempted' = [attempted EXCEPT ![t] = Append(@, <<cityIdx[t], "current">>)]
    /\ UNCHANGED <<store, now, storeVars, aggVars, providers, startVars, histVars, lockVars,
                   heapVars, svcVars, apiVars,
                   running, cityIdx, skipped>>

\* a runForCity that goes on to the forecast before the save is applied
RunForCitySaveCurrentLate(t) ==
    /\ schedPc[t] = "saveCurrent"
    /\ schedPc' = [schedPc EXCEPT ![t] = "forecast"]
    /\ UNCHANGED <<store, now, storeVars, aggVars, providers, startVars, histVars, lockVars,
                   heapVars, svcVars, apiVars,
                   running, cityIdx, fetched, skipped, svcCalls, attempted>>

\* runForCity: s.store.SaveCurrent(city, current, time.Now().UTC())
RunForCitySaveCurrent(t) ==
    /\ schedPc[t] = "saveCurrent"
    /\ \E at \in TimeNow :
          /\ now' = at
          /\ store' = SaveCurrent(store, cities[cityIdx[t]], fetched[t], at)
    /\ schedPc' = [schedPc EXCEPT ![t] = "forecast"]
    /\ UNCHANGED <<storeVars, aggVars, providers, startVars, histVars, lockVars,
                   heapVars, svcVars, apiVars,
                   running, cityIdx, fetched, skipped, svcCalls, attempted>>

\* the end of runForCity: the next city, or the end of the loop of runOnce
AfterCity(t) ==
    IF cityIdx[t] < Len(cities)
    THEN /\ schedPc' = [schedPc EXCEPT ![t] = "current"]
         /\ cityIdx' = [cityIdx EXCEPT ![t] = @ + 1]
    ELSE /\ schedPc' = [schedPc EXCEPT ![t] = "defer"]
         /\ UNCHANGED cityIdx

\* runForCity: forecast, err := s.service.GetForecast(ctx, city, s.defaultDays)
RunForCityGetForecast(t) ==
    /\ schedPc[t] = "forecast"
    /\ \E o \in ServiceOutcomes([op |-> "forecast", city |-> cities[cityIdx[t]],
                                  days |-> defaultDays]) :
          IF o.err # Nil
          THEN /\ AfterCity(t)
               /\ UNCHANGED fetched
          ELSE /\ schedPc' = [schedPc EXCEPT ![t] = "saveForecast"]
               /\ fetched' = [fetched EXCEPT ![t] = o.value]
               /\ UNCHANGED cityIdx
    /\ svcCalls' = svcCalls + 1
    /\ attempted' = [attempted EXCEPT ![t] = Append(@, <<cityIdx[t], "forecast">>)]
    /\ UNCHANGED <<store, now, storeVars, aggVars, providers, startVars, histVars, lockVars,
                   heapVars, svcVars, apiVars,
                   running, skipped>>

\* runForCity: s.store.SaveForecast(city, s.defaultDays, forecast, time.Now().UTC())
RunForCitySaveForecast(t) ==
    /\ schedPc[t] = "saveForecast"
    /\ \E at \in TimeNow :
          /\ now' = at
          /\ store' = SaveForecast(store, cities[cityIdx[t]], defaultDays, fetched[t], at)
    /\ AfterCity(t)
    /\ UNCHANGED <<storeVars, aggVars, providers, startVars, histVars, lockVars,
                   heapVars, svcVars, apiVars,
                   running, fetched, skipped, svcCalls, attempted>>

\* a runOnce that returns without resetting the flag
RunOnceReturnKeepsFlag(t) ==
    /\ schedPc[t] = "defer"
    /\ schedPc' = [schedPc EXCEPT ![t] = "done"]
    /\ UNCHANGED <<store, now, storeVars, aggVars, providers, startVars, histVars, lockVars,
                   heapVars, svcVars, apiVars,
                   running, cityIdx, fetched, skipped, svcCalls, attempted>>

\* runOnce returns: the deferred atomic.StoreInt32(&s.running, 0)
RunOnceReturn(t) ==
    /\ schedPc[t] = "defer"
    /\ running' = 0
    /\ schedPc' = [schedPc EXCEPT ![t] = "done"]
    /\ UNCHANGED <<store, now, storeVars, aggVars, providers, startVars, histVars, lockVars,
                   heapVars, svcVars, apiVars,
                   cityIdx, fetched, skipped, svcCalls, attempted>>

Next ==
    \/ \E t \in Callers : RunOnceSkip(t)
    \/ \E t \in Callers : RunOnceEnter(t)
    \/ \E t \in Callers : RunForCityGetCurrent(t)
    \/ \E t \in Callers : RunForCitySaveCurrent(t)
    \/ \E t \in Callers : RunForCityGetForecast(t)
    \/ \E t \in Callers : RunForCitySaveForecast(t)
    \/ \E t \in Callers : RunOnceReturn(t)

Spec == InitSched /\ [][Next]_vars

(***************************************************************************)
(* C1: at most one refresh cycle is running.  Of any number of concurrent  *)
(* runOnce calls at most one is past the compare-and-swap guard, and the   *)
(* flag is 1 exactly while one is.                                         *)
(***************************************************************************)
Cycling == {t \in Callers : schedPc[t] \in InCycle}

C1_AtMostOneCycle ==
    /\ Cardinality(Cycling) <= 1
    /\ running = 1 <=> Cycling # {}

\* one caller is in runForCity of the second city while another one has been
\* turned away
C1_Witness ==
    \E t, u \in Callers :
        /\ schedPc[t] = "saveForecast"
        /\ cityIdx[t] = 2
        /\ schedPc[u] = "skipped"
        /\ running = 1

(***************************************************************************)
(* C2: a runOnce called while a cycle is running is skipped.  In the step  *)
(* in which it meets the set flag it returns: it makes no service call,    *)
(* leaves the store as it is and leaves the flag set, and the cycle in     *)
(* progress goes on as the only one.                                       *)
(***************************************************************************)
C2_OverlappingTickSkipped ==
    [][\A t \in Callers :
          (schedPc[t] = "idle" /\ running = 1 /\ schedPc'[t] # "idle") =>
              /\ schedPc'[t] = "skipped"
              /\ store' = store
              /\ svcCalls' = svcCalls
              /\ running' = 1
              /\ skipped' = skipped + 1
              /\ \A u \in Callers \ {t} : schedPc'[u] = schedPc[u]]_vars

\* a caller was skipped while the cycle of another one had saved for the
\* first city and was still running
C2_Witness ==
    \E t, u \in Callers :
        /\ schedPc[t] = "skipped"
        /\ schedPc[u] = "current"
        /\ cityIdx[u] = 2
        /\ skipped = 1
        /\ running = 1
        /\ DOMAIN store.current # {}

(***************************************************************************)
(* sync.RWMutex, as the Go runtime implements it: w is the writers' mutex, *)
(* readerCount the number of readers (less rwmutexMaxReaders while a       *)
(* writer is pending or holds the lock), readerWait the number of readers  *)
(* a pending writer waits for, and the two semaphores.  Each operator      *)
(* returns the mutex after the call with, for the locking calls, whether   *)
(* the caller must sleep on its semaphore and, for the unlocking calls,    *)
(* the fatal error the runtime raises ("" when it raises none).            *)
(***************************************************************************)
rwmutexMaxReaders == 2^30

\* a Lock issued by a write operation that takes the read lock instead
LockShared(m) ==
    [mu |-> [m EXCEPT !.readerCount = @ + 1], wait |-> m.readerCount + 1 < 0]

\* rw.Lock(), once rw.w is free
Lock(m) ==
    LET r == m.readerCount
        m1 == [m EXCEPT !.w = 1, !.readerCount = @ - rwmutexMaxReaders]
    IN  IF r # 0
        THEN [mu |-> [m1 EXCEPT !.readerWait = @ + r], wait |-> m.readerWait + r # 0]
        ELSE [mu |-> m1, wait |-> FALSE]

\* rw.Unlock()
Unlock(m) ==
    LET r == m.readerCount + rwmutexMaxReaders
        m1 == [m EXCEPT !.readerCount = r]
    IN  IF r >= rwmutexMaxReaders
        THEN [mu |-> m1, fatal |-> "sync: Unlock of unlocked RWMutex"]
        ELSE LET m2 == [m1 EXCEPT !.readerSem = IF r > 0 THEN @ + r ELSE @]
             IN  IF m.w = 0
                 THEN [mu |-> m2, fatal |-> "sync: unlock of unlocked mutex"]
                 ELSE [mu |-> [m2 EXCEPT !.w = 0], fatal |-> ""]

\* rw.RLock()
RLock(m) ==
    [mu |-> [m EXCEPT !.readerCount = @ + 1], wait |-> m.readerCount + 1 < 0]

\* rw.RUnlock()
RUnlock(m) ==
    LET r == m.readerCount - 1
        m1 == [m EXCEPT !.readerCount = r]
    IN  IF r >= 0 THEN [mu |-> m1, fatal |-> ""]
        ELSE IF r + 1 = 0 \/ r + 1 = -rwmutexMaxReaders
        THEN [mu |-> m1, fatal |-> "sync: RUnlock of unlocked RWMutex"]
        ELSE [mu |-> [m1 EXCEPT !.readerWait = @ - 1,
                                !.writerSem = IF m.readerWait - 1 = 0 THEN @ + 1 ELSE @],
              fatal |-> ""]

(***************************************************************************)
(* The store called from several goroutines, statement by statement.       *)
(* memory.go holds two definitions of the store; def says which one the    *)
(* goroutines run.  A call is a record of its operation and arguments.     *)
(***************************************************************************)
\* the first definition's normalizeCity: strings.ToLower(strings.Trim(city, " "))
normalizeCityFirst(city) == ToLower(TrimRightCut(TrimLeftCut(city)))

Saves == {"SaveCurrent", "SaveForecast"}

\* the save operations without the lock
ProgramUnlocked(d, op) ==
    IF op \in Saves
    THEN IF d = "first" THEN <<"now", "latest", "lastFetch">>
         ELSE <<"now", "latest", "lastFetch", "history">>
    ELSE <<"RLock", "read", "RUnlock">>

\* the statements of a call, the evaluation of its time.Now() argument and
\* its deferred unlock included
Program(d, op) ==
    IF op \in Saves
    THEN IF d = "first" THEN <<"now", "Lock", "latest", "lastFetch", "Unlock">>
         ELSE <<"now", "Lock", "latest", "lastFetch", "history", "Unlock">>
    ELSE IF d = "first" /\ op = "GetCurrent" THEN <<"RLock", "read", "Unlock">>
    ELSE <<"RLock", "read", "RUnlock">>

\* the statement after stmt in the call c, "done" after the last one
After(d, c, stmt) ==
    LET prog == Program(d, c.op)
        i == CHOOSE k \in 1..Len(prog) : prog[k] = stmt
    IN  IF i = Len(prog) THEN "done" ELSE prog[i + 1]

\* the key a call computes from its city argument
KeyOf(d, c) == IF d = "first" THEN normalizeCityFirst(c.city) ELSE normalizeCity(c.city)

\* one assignment of SaveCurrent / SaveForecast
WriteStmt(d, s, stmt, c) ==
    LET key == KeyOf(d, c)
        fkey == forecastKey(key, c.days)
    IN  CASE stmt = "latest" /\ c.op = "SaveCurrent" ->
                [s EXCEPT !.current = MapPut(@, key, c.value)]
          [] stmt = "latest" /\ c.op = "SaveForecast" ->
                [s EXCEPT !.forecast = MapPut(@, fkey, c.value)]
          [] stmt = "lastFetch" /\ d = "first" /\ c.op = "SaveCurrent" ->
                [s EXCEPT !.lastFetch = MapPut(@, c.city, c.fetchedAt)]
          [] stmt = "lastFetch" ->
                [s EXCEPT !.lastFetch = MapPut(@, key, c.fetchedAt)]
          [] stmt = "history" /\ c.op = "SaveCurrent" ->
                [s EXCEPT !.currentHistory =
                    MapPut(@, key, AppendBounded(HistoryOf(@, key),
                                                 CurrentSnapshot(c.fetchedAt, c.value)))]
          [] stmt = "history" /\ c.op = "SaveForecast" ->
                [s EXCEPT !.forecastHistory =
                    MapPut(@, fkey, AppendBounded(HistoryOf(@, fkey),
                                                  ForecastSnapshot(c.fetchedAt, c.days,
                                                                   c.value)))]

\* a lookup in a map whose entries have expired
LookupExpired(m, k, zero) == <<zero, FALSE>>

\* v, ok := m[k]
Lookup(m, k, zero) == IF k \in DOMAIN m THEN <<m[k], TRUE>> ELSE <<zero, FALSE>>

\* what a read operation returns
ReadStmt(d, s, c) ==
    CASE c.op = "GetCurrent" -> Lookup(s.current, KeyOf(d, c), ZeroCurrentWeather)
      [] c.op = "GetForecast" ->
            Lookup(s.forecast, forecastKey(KeyOf(d, c), c.days), ZeroForecast)
      [] c.op = "CurrentHistory" -> CurrentHistory(s, c.city, c.limit)
      [] c.op = "ForecastHistory" -> ForecastHistory(s, c.city, c.days, c.limit)
      [] c.op = "LastFetchTimes" -> LastFetchTimes(s)

\* the spellings the savers use, and what goroutine g saves
SaverCities == {Capitalised(Rio), <<" ">> \o Rio}

WeatherOf(g) == CurrentWeather(Rio, 10 + g, 40 + g, g, SourceOpenMeteo)

ForecastOf(g) == Forecast(Rio, defaultDays, <<ForecastItem(0, 10 + g, SourceOpenMeteo)>>)

Call(op, city, days, limit, value) ==
    [op |-> op, city |-> city, days |-> days, limit |-> limit, value |-> value,
     fetchedAt |-> None]

\* the calls goroutine g may make under definition d (the first has no history)
Calls(d, g) ==
    {Call("SaveCurrent", city, 0, 0, WeatherOf(g)) : city \in SaverCities}
    \cup {Call("SaveForecast", city, defaultDays, 0, ForecastOf(g)) : city \in SaverCities}
    \cup {Call("GetCurrent", Rio, 0, 0, None),
          Call("GetForecast", Rio, defaultDays, 0, None),
          Call("LastFetchTimes", <<>>, 0, 0, None)}
    \cup (IF d = "first" THEN {}
          ELSE {Call("CurrentHistory", Rio, 0, 0, None),
                Call("ForecastHistory", Rio, defaultDays, 0, None)})

InitCacheVars ==
    /\ store = NewInMemoryStore
    /\ now = 0
    /\ InitStoreVars
    /\ InitAggVars
    /\ providers = <<>>
    /\ InitSvcVars
    /\ InitApiVars
    /\ InitSchedVars
    /\ InitStartVars
    /\ InitHistVars
    /\ InitLockVars
    /\ InitHeapVars

\* the second definition of memory.go (the one with the history)
InitCache == def = "second" /\ InitCacheVars

\* the first definition of memory.go
InitCacheFirst == def = "first" /\ InitCacheVars

\* goroutine g goes from stmt to the next statement of its call; a Save*
\* call that returns is recorded as completed
Advance(g, stmt) ==
    LET next == After(def, gcall[g], stmt)
    IN  /\ gpc' = [gpc EXCEPT ![g] = next]
        /\ doneSaves' = IF next = "done" /\ gcall[g].op \in Saves
                        THEN Append(doneSaves, gcall[g])
                        ELSE doneSaves

otherVars ==
    <<storeVars, aggVars, providers, svcVars, apiVars, schedVars, startVars, histVars,
      heapVars>>

\* a goroutine calls the store
GoCall(g) ==
    /\ fatal = ""
    /\ gpc[g] = "idle"
    /\ \E c \in Calls(def, g) :
          /\ gcall' = [gcall EXCEPT ![g] = c]
          /\ gpc' = [gpc EXCEPT ![g] = Program(def, c.op)[1]]
    /\ UNCHANGED <<store, now, def, mu, gret, fatal, doneSaves, otherVars>>

\* the caller evaluates time.Now().UTC(), the last argument of Save*
GoTimeNow(g) ==
    /\ fatal = ""
    /\ gpc[g] = "now"
    /\ \E t \in TimeNow :
          /\ now' = t
          /\ gcall' = [gcall EXCEPT ![g].fetchedAt = t]
    /\ Advance(g, "now")
    /\ UNCHANGED <<store, def, mu, gret, fatal, otherVars>>

\* s.mu.Lock(): blocks while rw.w is held, then announces the writer
GoLock(g) ==
    /\ fatal = ""
    /\ gpc[g] = "Lock"
    /\ mu.w = 0
    /\ mu' = Lock(mu).mu
    /\ IF Lock(mu).wait
       THEN gpc' = [gpc EXCEPT ![g] = "LockSem"] /\ UNCHANGED doneSaves
       ELSE Advance(g, "Lock")
    /\ UNCHANGED <<store, now, def, gcall, gret, fatal, otherVars>>

\* the pending writer is woken by the last reader it waited for
GoLockWake(g) ==
    /\ fatal = ""
    /\ gpc[g] = "LockSem"
    /\ mu.writerSem > 0
    /\ mu' = [mu EXCEPT !.writerSem = @ - 1]
    /\ Advance(g, "Lock")
    /\ UNCHANGED <<store, now, def, gcall, gret, fatal, otherVars>>

\* s.mu.RLock()
GoRLock(g) ==
    /\ fatal = ""
    /\ gpc[g] = "RLock"
    /\ mu' = RLock(mu).mu
    /\ IF RLock(mu).wait
       THEN gpc' = [gpc EXCEPT ![g] = "RLockSem"] /\ UNCHANGED doneSaves
       ELSE Advance(g, "RLock")
    /\ UNCHANGED <<store, now, def, gcall, gret, fatal, otherVars>>

\* the blocked reader is woken by the writer's Unlock
GoRLockWake(g) ==
    /\ fatal = ""
    /\ gpc[g] = "RLockSem"
    /\ mu.readerSem > 0
    /\ mu' = [mu EXCEPT !.readerSem = @ - 1]
    /\ Advance(g, "RLock")
    /\ UNCHANGED <<store, now, def, gcall, gret, fatal, otherVars>>

\* one assignment of a Save*
GoWrite(g) ==
    /\ fatal = ""
    /\ gpc[g] \in {"latest", "lastFetch", "history"}
    /\ store' = WriteStmt(def, store, gpc[g], gcall[g])
    /\ Advance(g, gpc[g])
    /\ UNCHANGED <<now, def, mu, gcall, gret, fatal, otherVars>>

\* the body of a read operation: its return values are computed
GoRead(g) ==
    /\ fatal = ""
    /\ gpc[g] = "read"
    /\ gret' = [gret EXCEPT ![g] = ReadStmt(def, store, gcall[g])]
    /\ Advance(g, "read")
    /\ UNCHANGED <<store, now, def, mu, gcall, fatal, otherVars>>

\* the deferred s.mu.Unlock()
GoUnlock(g) ==
    /\ fatal = ""
    /\ gpc[g] = "Unlock"
    /\ mu' = Unlock(mu).mu
    /\ fatal' = Unlock(mu).fatal
    /\ IF Unlock(mu).fatal = ""
       THEN Advance(g, "Unlock")
       ELSE UNCHANGED <<gpc, doneSaves>>
    /\ UNCHANGED <<store, now, def, gcall, gret, otherVars>>

\* the deferred s.mu.RUnlock()
GoRUnlock(g) ==
    /\ fatal = ""
    /\ gpc[g] = "RUnlock"
    /\ mu' = RUnlock(mu).mu
    /\ fatal' = RUnlock(mu).fatal
    /\ IF RUnlock(mu).fatal = ""
       THEN Advance(g, "RUnlock")
       ELSE UNCHANGED <<gpc, doneSaves>>
    /\ UNCHANGED <<store, now, def, gcall, gret, otherVars>>

NextCache ==
    \/ \E g \in Goroutines : GoCall(g)
    \/ \E g \in Goroutines : GoTimeNow(g)
    \/ \E g \in Goroutines : GoLock(g)
    \/ \E g \in Goroutines : GoLockWake(g)
    \/ \E g \in Goroutines : GoRLock(g)
    \/ \E g \in Goroutines : GoRLockWake(g)
    \/ \E g \in Goroutines : GoWrite(g)
    \/ \E g \in Goroutines : GoRead(g)
    \/ \E g \in Goroutines : GoUnlock(g)
    \/ \E g \in Goroutines : GoRUnlock(g)

SpecCache == InitCache /\ [][NextCache]_vars

SpecCacheFirst == InitCacheFirst /\ [][NextCache]_vars

(***************************************************************************)
(* C11: every key of the last-fetch map is a normalized city name.  After  *)
(* any SaveCurrent and SaveForecast calls with arbitrary spellings the map *)
(* holds one entry per normalized city saved and never two entries for two *)
(* spellings of one city.                                                  *)
(***************************************************************************)
CompletedCities == {normalizeCity(doneSaves[i].city) : i \in 1..Len(doneSaves)}

C11_LastFetchKeysNormalized ==
    /\ \A k \in DOMAIN store.lastFetch : k = normalizeCity(k)
    /\ \A k1, k2 \in DOMAIN store.lastFetch :
          normalizeCity(k1) = normalizeCity(k2) => k1 = k2
    /\ CompletedCities \subseteq DOMAIN store.lastFetch

(***************************************************************************)
(* The history of one city, filled past its bound.  The k-th snapshot      *)
(* saved for a key has temperature k, so that a snapshot tells its place   *)
(* in the order of the saves.  The saves are made in quick succession:    *)
(* the clock shows the same instant to all of them.                        *)
(***************************************************************************)
Limits == {-1, 0, 2}

InitHistory ==
    /\ store = NewInMemoryStore
    /\ now \in 0..MaxTime
    /\ InitStoreVars
    /\ InitAggVars
    /\ providers = <<>>
    /\ InitSvcVars
    /\ InitApiVars
    /\ InitSchedVars
    /\ InitStartVars
    /\ InitHistVars
    /\ def = "second"
    /\ InitLockVars
    /\ InitHeapVars

HistSaveCurrent ==
    \E t \in {now} :
      LET w == CurrentWeather(Rio, Len(saveLog.current) + 1, 40, 3, SourceOpenMeteo)
      IN  /\ nSaves < MaxHistSaves
          /\ now' = t
          /\ store' = SaveCurrent(store, Capitalised(Rio), w, t)
          /\ saveLog' = [saveLog EXCEPT !.current = Append(@, CurrentSnapshot(t, w))]
          /\ ret' = [op |-> "SaveCurrent"]
          /\ nSaves' = nSaves + 1
          /\ UNCHANGED <<savedCur, savedFc, aggVars, providers, svcVars, apiVars, schedVars,
                         startVars, lockVars, heapVars>>

HistSaveForecast ==
    \E t \in {now} :
      LET f == Forecast(Rio, defaultDays,
                        <<ForecastItem(0, Len(saveLog.forecast) + 1, SourceOpenMeteo)>>)
      IN  /\ nSaves < MaxHistSaves
          /\ now' = t
          /\ store' = SaveForecast(store, Capitalised(Rio), defaultDays, f, t)
          /\ saveLog' = [saveLog EXCEPT
                           !.forecast = Append(@, ForecastSnapshot(t, defaultDays, f))]
          /\ ret' = [op |-> "SaveForecast"]
          /\ nSaves' = nSaves + 1
          /\ UNCHANGED <<savedCur, savedFc, aggVars, providers, svcVars, apiVars, schedVars,
                         startVars, lockVars, heapVars>>

HistCurrentHistory ==
    \E limit \in Limits :
      /\ ret' = [op |-> "CurrentHistory", limit |-> limit,
                 value |-> CurrentHistory(store, Rio, limit)]
      /\ UNCHANGED <<store, now, savedCur, savedFc, nSaves, aggVars, providers, svcVars,
                     apiVars, schedVars, startVars, histVars, lockVars, heapVars>>

HistForecastHistory ==
    \E limit \in Limits :
      /\ ret' = [op |-> "ForecastHistory", limit |-> limit,
                 value |-> ForecastHistory(store, Rio, defaultDays, limit)]
      /\ UNCHANGED <<store, now, savedCur, savedFc, nSaves, aggVars, providers, svcVars,
                     apiVars, schedVars, startVars, histVars, lockVars, heapVars>>

NextHistory ==
    \/ HistSaveCurrent
    \/ HistSaveForecast
    \/ HistCurrentHistory
    \/ HistForecastHistory

SpecHistory == InitHistory /\ [][NextHistory]_vars

\* the n entries saved last, in the order they were saved
Newest(l, n) == IF Len(l) <= n THEN l ELSE SubSeq(l, Len(l) - n + 1, Len(l))

(***************************************************************************)
(* C12: the history of every current key and of every (city, days)         *)
(* forecast key has at most 50 entries, and it is the tail of what was     *)
(* saved for the key: a save beyond the bound evicts the oldest entry and  *)
(* never a newer one.                                                      *)
(***************************************************************************)
C12_HistoryBoundedFifo ==
    /\ \A k \in DOMAIN store.currentHistory :
          /\ Len(store.currentHistory[k]) <= 50
          /\ store.currentHistory[k] = Newest(saveLog.current, 50)
    /\ \A k \in DOMAIN store.forecastHistory :
          /\ Len(store.forecastHistory[k]) <= 50
          /\ store.forecastHistory[k] = Newest(saveLog.forecast, 50)

\* 52 saves for one key: the first two snapshots are gone
C12_Witness ==
    /\ Len(saveLog.current) = 52
    /\ Len(store.currentHistory[Rio]) = 50
    /\ store.currentHistory[Rio][1].Data.Temperature = 3
    /\ store.currentHistory[Rio][50].Data.Temperature = 52

(***************************************************************************)
(* C13: after N > 50 saves for one key CurrentHistory(key, 0) returns the  *)
(* 50 entries saved last, the oldest of them first and the newest last.    *)
(***************************************************************************)
C13_HistoryReturnsNewest50 ==
    (ret.op = "CurrentHistory" /\ ret.limit = 0 /\ Len(saveLog.current) > 50) =>
        LET n == Len(saveLog.current)
        IN  /\ Len(ret.value) = 50
            /\ \A i \in 1..50 : ret.value[i] = saveLog.current[n - 50 + i]
            /\ \A i \in 1..49 :
                  ret.value[i].Data.Temperature < ret.value[i + 1].Data.Temperature

C13_Witness ==
    /\ ret.op = "CurrentHistory"
    /\ ret.limit = 0
    /\ Len(saveLog.current) = 52
    /\ Len(ret.value) = 50
    /\ ret.value[1].Data.Temperature = 3
    /\ ret.value[50].Data.Temperature = 52

(***************************************************************************)
(* Properties of the store under concurrent callers.                       *)
(***************************************************************************)
\* the store after the given Save* calls, each made as one step, in order
RECURSIVE Replay(_)
Replay(saves) ==
    IF saves = <<>> THEN NewInMemoryStore
    ELSE LET c == saves[Len(saves)]
             s == Replay(SubSeq(saves, 1, Len(saves) - 1))
         IN  IF c.op = "SaveCurrent"
             THEN SaveCurrent(s, c.city, c.value, c.fetchedAt)
             ELSE SaveForecast(s, c.city, c.days, c.value, c.fetchedAt)

\* goroutine g is about to look at the store: a reader at its body, a writer
\* that has the lock and has not written yet
Observes(g) ==
    \/ gpc[g] = "read"
    \/ gpc[g] = "latest" /\ "Lock" \in Range(Program(def, gcall[g].op))

\* a writer has made some of its assignments and not all of them
MidWrite(g) == gpc[g] \in {"lastFetch", "history"}

(***************************************************************************)
(* C14: a cache write is one atomic step for every other cache operation.  *)
(* Whenever an operation looks at the store, the latest slots, the         *)
(* last-fetch times and the histories are those left by the completed      *)
(* saves, each applied as a whole: never a latest slot with the new value  *)
(* beside a history tail or a last-fetch time that is still the old one.   *)
(***************************************************************************)
C14_WriteIsAtomic ==
    \A g \in Goroutines :
        Observes(g) =>
            /\ store = Replay(doneSaves)
            /\ \A h \in Goroutines \ {g} : ~MidWrite(h)

\* a reader and a second writer are kept out while a writer has set the
\* latest slot and not yet the history
C14_Witness ==
    \E g, h, k \in Goroutines :
        /\ gpc[g] = "lastFetch"
        /\ gcall[g].op = "SaveCurrent"
        /\ gpc[h] = "RLockSem"
        /\ gpc[k] = "Lock"
        /\ gcall[k].op = "SaveCurrent"
        /\ Len(doneSaves) = 0
        /\ store # Replay(doneSaves)

\* the completed SaveCurrent calls for the key, in the order they completed
CompletedCurrent(key) ==
    SelectSeq(doneSaves, LAMBDA c : c.op = "SaveCurrent" /\ normalizeCity(c.city) = key)

(***************************************************************************)
(* C15: last writer wins.  A GetCurrent returns the value of the           *)
(* SaveCurrent on its key that completed last before it, whole (absent     *)
(* when no save has completed); so once all concurrent saves on a key have *)
(* completed, every GetCurrent returns the value of the save that          *)
(* completed last, never a mixture of two saves.                           *)
(***************************************************************************)
C15_LastWriterWins ==
    \A g \in Goroutines :
        (gcall[g] # None /\ gcall[g].op = "GetCurrent" /\ gpc[g] = "RUnlock") =>
            LET done == CompletedCurrent(normalizeCity(gcall[g].city))
            IN  gret[g] = IF done = <<>>
                          THEN <<ZeroCurrentWeather, FALSE>>
                          ELSE <<done[Len(done)].value, TRUE>>

\* two SaveCurrent calls overlapped (the one that completed last had taken
\* its timestamp first), and a GetCurrent made after both returned the
\* value of the second to complete
C15_Witness ==
    \E g \in Goroutines :
        /\ gpc[g] = "RUnlock"
        /\ gcall[g].op = "GetCurrent"
        /\ Len(doneSaves) = 2
        /\ doneSaves[1].op = "SaveCurrent"
        /\ doneSaves[2].op = "SaveCurrent"
        /\ doneSaves[1].fetchedAt > doneSaves[2].fetchedAt
        /\ gret[g] = <<doneSaves[2].value, TRUE>>

\* goroutine g sleeps on rw.w or on a semaphore nobody has released
Blocked(g) ==
    \/ gpc[g] = "Lock" /\ mu.w = 1
    \/ gpc[g] = "LockSem" /\ mu.writerSem = 0
    \/ gpc[g] = "RLockSem" /\ mu.readerSem = 0

\* some call can never return: every goroutine has returned or sleeps
Deadlocked ==
    /\ \E g \in Goroutines : Blocked(g)
    /\ \A g \in Goroutines : Blocked(g) \/ gpc[g] = "done"

(***************************************************************************)
(* C16: concurrent SaveCurrent / GetCurrent calls never crash or deadlock. *)
(* Every cache operation releases the lock in the mode it acquired it: the *)
(* runtime never stops the process for the release of a lock that is not   *)
(* held, no call sleeps for ever, and when all calls have returned the     *)
(* lock is free.                                                           *)
(***************************************************************************)
C16_NoCrashNoDeadlock ==
    /\ fatal = ""
    /\ ~Deadlocked
    /\ (\A g \in Goroutines : gpc[g] = "done") => mu = ZeroRWMutex

(***************************************************************************)
(* Maps handed to callers.  A map is a reference: address 0 is the store's *)
(* own s.lastFetch, n > 0 the n-th map allocated for a caller.  The        *)
(* caller of LastFetchTimes keeps the map it was given and writes to it.   *)
(***************************************************************************)
\* a LastFetchTimes that returns s.lastFetch itself
MakeMapAlias(h) == [addr |-> 0]

\* res := make(map[string]time.Time, len(s.lastFetch)): a new map
MakeMap(h) == [addr |-> Len(h) + 1]

\* the map a reference refers to
Deref(ref) == IF ref.addr = 0 THEN store.lastFetch ELSE heap[ref.addr]

SnapCities == {Capitalised(Rio), Capitalised(Oslo)}

InitSnapshot == InitCache

SnapSaveCurrent ==
    \E city \in SnapCities, t \in TimeNow :
      LET c == [Call("SaveCurrent", city, 0, 0, WeatherOf(1)) EXCEPT !.fetchedAt = t]
      IN  /\ nSaves < MaxSaves
          /\ now' = t
          /\ store' = SaveCurrent(store, city, c.value, t)
          /\ doneSaves' = Append(doneSaves, c)
          /\ nSaves' = nSaves + 1
          /\ UNCHANGED <<ret, savedCur, savedFc, aggVars, providers, svcVars, apiVars,
                         schedVars, startVars, histVars, def, mu, gpc, gcall, gret, fatal,
                         heapVars>>

SnapSaveForecast ==
    \E city \in SnapCities, t \in TimeNow :
      LET c == [Call("SaveForecast", city, defaultDays, 0, ForecastOf(1))
                  EXCEPT !.fetchedAt = t]
      IN  /\ nSaves < MaxSaves
          /\ now' = t
          /\ store' = SaveForecast(store, city, defaultDays, c.value, t)
          /\ doneSaves' = Append(doneSaves, c)
          /\ nSaves' = nSaves + 1
          /\ UNCHANGED <<ret, savedCur, savedFc, aggVars, providers, svcVars, apiVars,
                         schedVars, startVars, histVars, def, mu, gpc, gcall, gret, fatal,
                         heapVars>>

\* LastFetchTimes: the new map is filled from s.lastFetch and returned; ret
\* records what the map held when it was returned
SnapLastFetchTimes ==
    LET res == MakeMap(heap)
    IN  /\ Len(heap) < MaxSnapshots
        /\ heap' = IF res.addr = 0 THEN heap ELSE Append(heap, LastFetchTimes(store))
        /\ held' = res
        /\ ret' = [op |-> "LastFetchTimes", value |-> LastFetchTimes(store),
                   savesBefore |-> nSaves, written |-> FALSE]
        /\ UNCHANGED <<store, now, savedCur, savedFc, nSaves, aggVars, providers, svcVars,
                       apiVars, schedVars, startVars, histVars, lockVars>>

\* the map a reference refers to becomes m
Assign(ref, m) ==
    IF ref.addr = 0
    THEN store' = [store EXCEPT !.lastFetch = m] /\ UNCHANGED heap
    ELSE heap' = [heap EXCEPT ![ref.addr] = m] /\ UNCHANGED store

\* the caller: m[k] = t on the map it holds
SnapCallerWrites ==
    \E k \in {Rio, Oslo}, t \in 0..MaxTime :
      /\ held # None
      /\ (k \in DOMAIN Deref(held) => Deref(held)[k] # t)
      /\ Assign(held, MapPut(Deref(held), k, t))
      /\ ret' = [ret EXCEPT !.value = MapPut(@, k, t), !.written = TRUE]
      /\ UNCHANGED <<now, savedCur, savedFc, nSaves, aggVars, providers, svcVars, apiVars,
                     schedVars, startVars, histVars, lockVars, held>>

\* the caller: delete(m, k) on the map it holds
SnapCallerDeletes ==
    \E k \in IF held = None THEN {} ELSE DOMAIN Deref(held) :
      /\ Assign(held, [x \in DOMAIN Deref(held) \ {k} |-> Deref(held)[x]])
      /\ ret' = [ret EXCEPT !.value = [x \in DOMAIN @ \ {k} |-> @[x]], !.written = TRUE]
      /\ UNCHANGED <<now, savedCur, savedFc, nSaves, aggVars, providers, svcVars, apiVars,
                     schedVars, startVars, histVars, lockVars, held>>

NextSnapshot ==
    \/ SnapSaveCurrent
    \/ SnapSaveForecast
    \/ SnapLastFetchTimes
    \/ SnapCallerWrites
    \/ SnapCallerDeletes

SpecSnapshot == InitSnapshot /\ [][NextSnapshot]_vars

(***************************************************************************)
(* C17: LastFetchTimes returns a snapshot copy.  The map a caller holds    *)
(* has what it had when it was returned and what the caller itself wrote   *)
(* to it, whatever was saved since; and the store's last-fetch times are   *)
(* those of the saves, whatever the caller wrote to its map.               *)
(***************************************************************************)
C17_LastFetchTimesIsACopy ==
    /\ held # None => Deref(held) = ret.value
    /\ store = Replay(doneSaves)

\* a save was made after the map was returned, and the caller wrote to it
C17_Witness ==
    /\ held # None
    /\ ret.written
    /\ nSaves > ret.savesBefore
    /\ ret.savesBefore > 0
    /\ DOMAIN Deref(held) # DOMAIN store.lastFetch

(***************************************************************************)
(* C18: the instant LastFetchTimes reports for a city is the greatest      *)
(* fetchedAt of the completed SaveCurrent and SaveForecast calls for the   *)
(* city, for callers that read the clock before they call the save.        *)
(* Stated for the states in which no save is inside its critical section.  *)
(***************************************************************************)
CompletedAt(city) ==
    {doneSaves[i].fetchedAt :
        i \in {j \in 1..Len(doneSaves) : normalizeCity(doneSaves[j].city) = city}}

Greatest(S) == CHOOSE x \in S : \A y \in S : y <= x

C18_LastFetchIsGreatest ==
    (\A g \in Goroutines : gpc[g] \notin {"latest", "lastFetch", "history", "Unlock"}) =>
        \A city \in DOMAIN LastFetchTimes(store) :
            LastFetchTimes(store)[city] = Greatest(CompletedAt(city))

(***************************************************************************)
(* C19: a failure for one city does not abort the refresh cycle.  A cycle  *)
(* that ends has called GetCurrentWeather and then GetForecast for every   *)
(* configured city, in order, whatever the calls returned; a cycle under   *)
(* way has made the calls up to the place it is at.                        *)
(***************************************************************************)
AllCalls ==
    [i \in 1..(2 * Len(cities)) |->
        <<(i + 1) \div 2, IF i % 2 = 1 THEN "current" ELSE "forecast">>]

C19_FailureDoesNotAbortCycle ==
    \A t \in Callers :
        /\ schedPc[t] \in {"defer", "done"} => attempted[t] = AllCalls
        /\ schedPc[t] = "current" =>
              attempted[t] = SubSeq(AllCalls, 1, 2 * (cityIdx[t] - 1))
        /\ schedPc[t] \in {"saveCurrent", "forecast"} =>
              attempted[t] = SubSeq(AllCalls, 1, 2 * cityIdx[t] - 1)
        /\ schedPc[t] = "saveForecast" =>
              attempted[t] = SubSeq(AllCalls, 1, 2 * cityIdx[t])

\* the only cycle that ran has ended: both calls failed for the first city,
\* the forecast failed for the second one, whose current weather was saved
C19_Witness ==
    \E t \in Callers :
        /\ schedPc[t] = "done"
        /\ \A u \in Callers \ {t} : schedPc[u] \in {"idle", "skipped"}
        /\ attempted[t] = AllCalls
        /\ DOMAIN store.current = {normalizeCity(cities[2])}
        /\ DOMAIN store.forecast = {}

(***************************************************************************)
(* Scheduler.Start in its goroutine (main: go sched.Start(ctx)): the loop  *)
(* selects on ctx.Done() and ticker.C and calls runOnce for a tick.  A     *)
(* select with several ready cases takes any one of them.  The goroutine   *)
(* of Start is the caller StartCaller of runOnce.                          *)
(***************************************************************************)
StartCaller == CHOOSE t \in Callers : \A u \in Callers : t <= u

InitStart ==
    /\ store = NewInMemoryStore
    /\ now = 0
    /\ InitStoreVars
    /\ InitAggVars
    /\ providers = SchedulerProviders
    /\ InitSvcVars
    /\ InitApiVars
    /\ running = 0
    /\ schedPc = [t \in Callers |-> "none"]
    /\ cityIdx = [t \in Callers |-> 0]
    /\ fetched = [t \in Callers |-> None]
    /\ skipped = 0
    /\ svcCalls = 0
    /\ attempted = [t \in Callers |-> <<>>]
    /\ ctxDone = FALSE
    /\ tickerC = FALSE
    /\ startPc = "select"
    /\ nTicks = 0
    /\ mainPc = "none"
    /\ InitHistVars
    /\ def = "second"
    /\ InitLockVars
    /\ InitHeapVars

notStartVars ==
    <<store, now, storeVars, aggVars, providers, svcVars, apiVars, histVars, lockVars,
      heapVars>>

\* the ticker puts a tick in ticker.C (capacity 1; a tick that finds it full
\* is dropped), until the deferred ticker.Stop()
TickerFires ==
    /\ startPc # "returned"
    /\ ~tickerC
    /\ nTicks < MaxTicks
    /\ tickerC' = TRUE
    /\ nTicks' = nTicks + 1
    /\ UNCHANGED <<notStartVars, schedVars, ctxDone, startPc, mainPc>>

\* a tick falls due while ticker.C still holds the one before: it is dropped
TickerDrops ==
    /\ startPc # "returned"
    /\ tickerC
    /\ nTicks < MaxTicks
    /\ nTicks' = nTicks + 1
    /\ UNCHANGED <<notStartVars, schedVars, ctxDone, tickerC, startPc, mainPc>>

\* a termination signal cancels the context: ctx.Done() is closed
Cancel ==
    /\ ~ctxDone
    /\ ctxDone' = TRUE
    /\ UNCHANGED <<notStartVars, schedVars, tickerC, startPc, nTicks, mainPc>>

\* case <-ctx.Done(): return
StartSelectDone ==
    /\ startPc = "select"
    /\ ctxDone
    /\ startPc' = "returned"
    /\ UNCHANGED <<notStartVars, schedVars, ctxDone, tickerC, nTicks, mainPc>>

\* case <-ticker.C: go s.runOnce() -- the loop does not wait for the cycle
StartSelectTickSpawns ==
    /\ startPc = "select"
    /\ tickerC
    /\ tickerC' = FALSE
    /\ \E t \in Callers :
          /\ schedPc[t] = "none"
          /\ schedPc' = [schedPc EXCEPT ![t] = "idle"]
    /\ UNCHANGED <<notStartVars, running, cityIdx, fetched, skipped, svcCalls, attempted,
                   ctxDone, startPc, nTicks, mainPc>>

\* case <-ticker.C: s.runOnce()
StartSelectTick ==
    /\ startPc = "select"
    /\ tickerC
    /\ tickerC' = FALSE
    /\ startPc' = "runOnce"
    /\ schedPc' = [schedPc EXCEPT ![StartCaller] = "idle"]
    /\ UNCHANGED <<notStartVars, running, cityIdx, fetched, skipped, svcCalls, attempted,
                   ctxDone, nTicks, mainPc>>

\* runOnce has returned: the loop selects again
StartLoop ==
    /\ startPc = "runOnce"
    /\ schedPc[StartCaller] \in {"done", "skipped"}
    /\ startPc' = "select"
    /\ schedPc' = [schedPc EXCEPT ![StartCaller] = "none"]
    /\ UNCHANGED <<notStartVars, running, cityIdx, fetched, skipped, svcCalls, attempted,
                   ctxDone, tickerC, nTicks, mainPc>>

NextStart ==
    \/ TickerFires
    \/ TickerDrops
    \/ Cancel
    \/ StartSelectDone
    \/ StartSelectTick
    \/ RunOnceEnter(StartCaller)
    \/ RunForCityGetCurrent(StartCaller)
    \/ RunForCitySaveCurrent(StartCaller)
    \/ RunForCityGetForecast(StartCaller)
    \/ RunForCitySaveForecast(StartCaller)
    \/ RunOnceReturn(StartCaller)
    \/ StartLoop

SpecStart == InitStart /\ [][NextStart]_vars

(***************************************************************************)
(* C20: after the cancellation signal the scheduler starts no new refresh  *)
(* cycle.  Once ctx.Done() is closed Start does not call runOnce again,    *)
(* also when a tick is waiting in ticker.C at that moment.                 *)
(***************************************************************************)
C20_NoCycleAfterCancel ==
    [][ctxDone => ~(startPc = "select" /\ startPc' = "runOnce")]_vars

(***************************************************************************)
(* main (main.go): it starts Start in a goroutine, waits for the           *)
(* termination signal, shuts the HTTP server down, logs "scheduler         *)
(* stopped" and returns.  When main returns the process exits and every    *)
(* other goroutine ends where it is.                                       *)
(***************************************************************************)
InitMain ==
    /\ store = NewInMemoryStore
    /\ now = 0
    /\ InitStoreVars
    /\ InitAggVars
    /\ providers = SchedulerProviders
    /\ InitSvcVars
    /\ InitApiVars
    /\ running = 0
    /\ schedPc = [t \in Callers |-> "none"]
    /\ cityIdx = [t \in Callers |-> 0]
    /\ fetched = [t \in Callers |-> None]
    /\ skipped = 0
    /\ svcCalls = 0
    /\ attempted = [t \in Callers |-> <<>>]
    /\ ctxDone = FALSE
    /\ tickerC = FALSE
    /\ startPc = "select"
    /\ nTicks = 0
    /\ mainPc = "wait"
    /\ InitHistVars
    /\ def = "second"
    /\ InitLockVars
    /\ InitHeapVars

\* the process runs until main returns
ProcessAlive == mainPc # "returned"

\* <-ctx.Done(); log.Info("shutdown signal received")
MainCtxDone ==
    /\ mainPc = "wait"
    /\ ctxDone
    /\ mainPc' = "shutdown"
    /\ UNCHANGED <<notStartVars, schedVars, ctxDone, tickerC, startPc, nTicks>>

\* app.Shutdown() returns (it waits for the HTTP server only);
\* log.Info("scheduler stopped")
MainShutdown ==
    /\ mainPc = "shutdown"
    /\ mainPc' = "stopped"
    /\ UNCHANGED <<notStartVars, schedVars, ctxDone, tickerC, startPc, nTicks>>

\* main returns
MainReturn ==
    /\ mainPc = "stopped"
    /\ mainPc' = "returned"
    /\ UNCHANGED <<notStartVars, schedVars, ctxDone, tickerC, startPc, nTicks>>

NextMain ==
    \/ MainCtxDone
    \/ MainShutdown
    \/ MainReturn
    \/ ProcessAlive /\ TickerFires
    \/ ProcessAlive /\ TickerDrops
    \/ ProcessAlive /\ Cancel
    \/ ProcessAlive /\ StartSelectDone
    \/ ProcessAlive /\ StartSelectTick
    \/ ProcessAlive /\ RunOnceEnter(StartCaller)
    \/ ProcessAlive /\ RunForCityGetCurrent(StartCaller)
    \/ ProcessAlive /\ RunForCitySaveCurrent(StartCaller)
    \/ ProcessAlive /\ RunForCityGetForecast(StartCaller)
    \/ ProcessAlive /\ RunForCitySaveForecast(StartCaller)
    \/ ProcessAlive /\ RunOnceReturn(StartCaller)
    \/ ProcessAlive /\ StartLoop

SpecMain == InitMain /\ [][NextMain]_vars

(***************************************************************************)
(* C21: on shutdown an in-flight refresh cycle is allowed to finish: main  *)
(* has not logged "scheduler stopped" and has not returned while the       *)
(* goroutine of Start is still in its loop or in a cycle.                  *)
(***************************************************************************)
C21_ShutdownWaitsForCycle ==
    mainPc \in {"stopped", "returned"} => startPc = "returned"

(***************************************************************************)
(* C22: the fan-in waits for the provider tasks or for the deadline,       *)
(* whichever comes first: once the deadline of the call's context is       *)
(* reached, the call is not blocked waiting for a provider task that has   *)
(* not reported.                                                           *)
(***************************************************************************)
\* the range loop is blocked on the open, empty channel
WaitingForTasks == svcPc = "collect" /\ resultsCh = <<>> /\ ~chClosed

C22_ReturnsByDeadline ==
    ~(ctxReq = "done" /\ WaitingForTasks)

(***************************************************************************)
(* The sequential definition of the Service (service.go, second            *)
(* definition): the providers are tried in order and the first success is  *)
(* returned.                                                               *)
(***************************************************************************)
\* a caller calls GetCurrentWeather / GetForecast
SeqCall ==
    \E op \in {"current", "forecast"}, city \in RequestCities, days \in RequestDays :
      LET c == [op |-> op, city |-> city, days |-> days]
      IN  /\ svcPc = "idle"
          /\ nReq < MaxRequests
          /\ nReq' = nReq + 1
          /\ call' = c
          /\ resp' \in {r \in [1..Len(providers) -> UNION {Fetch(c, q) : q \in Range(providers)}] :
                         \A i \in 1..Len(providers) : r[i] \in Fetch(c, providers[i])}
          /\ invoked' = [i \in 1..Len(providers) |-> 0]
          /\ arrived' = <<>>
          /\ rangeIdx' = 1
          /\ svcRet' = None
          /\ svcPc' = "range"
          /\ UNCHANGED <<store, now, storeVars, aggVars, providers, startVars, histVars,
                         lockVars, heapVars, schedVars, http, ctxReq,
                         spawned, task, wg, closer, resultsCh, chClosed, collected>>

\* one iteration of the loop: w, err := p.FetchCurrent(ctx, city); an error
\* is logged and the loop continues, a success is returned
SeqTry ==
    /\ svcPc = "range"
    /\ rangeIdx <= Len(providers)
    /\ invoked' = [invoked EXCEPT ![rangeIdx] = @ + 1]
    /\ arrived' = Append(arrived, result(providers[rangeIdx], resp[rangeIdx].data,
                                         resp[rangeIdx].err))
    /\ IF resp[rangeIdx].err # Nil
       THEN /\ rangeIdx' = rangeIdx + 1
            /\ UNCHANGED <<svcPc, svcRet>>
       ELSE /\ svcRet' = [value |-> resp[rangeIdx].data, err |-> Nil, aggregated |-> None]
            /\ svcPc' = "returned"
            /\ UNCHANGED rangeIdx
    /\ UNCHANGED <<store, now, storeVars, aggVars, providers, startVars, histVars,
                   lockVars, heapVars, schedVars, apiVars,
                   call, resp, spawned, task, wg, closer, resultsCh, chClosed, collected>>

\* the loop has ended: return CurrentWeather{}, ErrProviderUnavailable
SeqExhausted ==
    /\ svcPc = "range"
    /\ rangeIdx > Len(providers)
    /\ svcRet' = [value |-> Zero(call.op), err |-> ErrProviderUnavailable, aggregated |-> None]
    /\ svcPc' = "returned"
    /\ UNCHANGED <<store, now, storeVars, aggVars, providers, startVars, histVars,
                   lockVars, heapVars, schedVars, apiVars,
                   call, resp, spawned, task, wg, closer, resultsCh, chClosed, collected,
                   arrived, invoked, rangeIdx>>

\* the caller has the result
SeqDone ==
    /\ svcPc = "returned"
    /\ svcPc' = "idle"
    /\ call' = None
    /\ rangeIdx' = 0
    /\ UNCHANGED <<store, now, storeVars, aggVars, providers, startVars, histVars,
                   lockVars, heapVars, schedVars, apiVars,
                   resp, spawned, task, wg, closer, resultsCh, chClosed, collected, svcRet,
                   arrived, invoked>>

NextServiceSeq ==
    \/ SeqCall
    \/ SeqTry
    \/ SeqExhausted
    \/ SeqDone

SpecServiceSeq == InitService /\ [][NextServiceSeq]_vars

(***************************************************************************)
(* C23: a provider failure never aborts the fan-out of its siblings: when  *)
(* a call with a non-empty provider list has returned, every configured    *)
(* provider was invoked exactly once and its result was collected,         *)
(* whichever providers failed.                                             *)
(***************************************************************************)
C23_EachProviderInvokedOnce ==
    /\ \A i \in Configured : invoked[i] <= 1
    /\ (svcPc = "returned" /\ ~NoProviders(providers)) =>
          /\ \A i \in Configured : invoked[i] = 1
          /\ Len(arrived) = Len(providers)
          /\ \A i \in Configured :
                \E k \in 1..Len(arrived) :
                   arrived[k] = result(providers[i], resp[i].data, resp[i].err)

(***************************************************************************)
(* The API boundary on errors: a handler whose service call failed answers *)
(* with mapServiceError(err); an error no handler dealt with reaches the   *)
(* ErrorHandler of the fiber app.  The errors are the classified ones,     *)
(* other ones, and errors that wrap them.                                  *)
(***************************************************************************)
\* w, err := svc.GetCurrentWeather(ctxReq, city); return mapServiceError(c, err)
HandlerServiceError ==
    \E op \in {"current", "forecast"}, e \in ErrorValues :
       /\ nReq < MaxRequests
       /\ nReq' = nReq + 1
       /\ svcRet' = [value |-> Zero(op), err |-> e, aggregated |-> None]
       /\ http' = mapServiceError(e)
       /\ UNCHANGED <<store, now, storeVars, aggVars, providers, startVars, histVars,
                      lockVars, heapVars, schedVars, ctxReq,
                      svcPc, call, resp, spawned, task, wg, closer, resultsCh, chClosed,
                      collected, arrived, invoked, rangeIdx>>

\* ErrorHandler: func(c *fiber.Ctx, err error) error
HandlerUnhandledError ==
    \E e \in ErrorValues :
       /\ nReq < MaxRequests
       /\ nReq' = nReq + 1
       /\ svcRet' = None
       /\ http' = ErrorHandler(e)
       /\ UNCHANGED <<store, now, storeVars, aggVars, providers, startVars, histVars,
                      lockVars, heapVars, schedVars, ctxReq,
                      svcPc, call, resp, spawned, task, wg, closer, resultsCh, chClosed,
                      collected, arrived, invoked, rangeIdx>>

NextApiError ==
    \/ HandlerServiceError
    \/ HandlerUnhandledError

SpecApiError == InitService /\ [][NextApiError]_vars

\* the errors in the chain of err
RECURSIVE Chain(_)
Chain(err) == IF err = Nil THEN {} ELSE {err} \cup Chain(Unwrap(err))

\* the one message the API gives with a status
FixedMessage(status) ==
    CASE status = StatusNotFound -> "city not found"
      [] status = StatusServiceUnavailable -> "weather providers are unavailable"
      [] status = StatusInternalServerError -> "internal server error"

(***************************************************************************)
(* C24: the API boundary answers a service error that is CityNotFound with *)
(* 404, one that is ProviderUnavailable with 503 and any other error with  *)
(* 500, and the body carries the fixed message of the status, whatever the *)
(* text of the error.                                                      *)
(***************************************************************************)
C24_ErrorMapping ==
    http # None =>
       /\ svcRet # None =>
             http.status =
                IF ErrCityNotFound \in Chain(svcRet.err) THEN StatusNotFound
                ELSE IF ErrProviderUnavailable \in Chain(svcRet.err)
                     THEN StatusServiceUnavailable
                     ELSE StatusInternalServerError
       /\ svcRet = None => http.status = StatusInternalServerError
       /\ DOMAIN http = {"status", "error"}
       /\ http.error = FixedMessage(http.status)

\* a city-not-found error wrapped twice has been answered
C24_Witness ==
    /\ http # None
    /\ svcRet # None
    /\ svcRet.err = Wrapf("fetch current", Wrapf("openmeteo", ErrCityNotFound))
    /\ http = [status |-> StatusNotFound, error |-> "city not found"]

(***************************************************************************)
(* C25: cache entries have no expiry.  No step of any store operation      *)
(* removes a latest slot, and a GetCurrent / GetForecast that reads after  *)
(* a save for its key has completed returns present, with the value of a   *)
(* completed save for that key.                                            *)
(***************************************************************************)
\* the values of the completed saves for the key the read c asks for
SavedValues(c) ==
    {doneSaves[i].value :
       i \in {j \in 1..Len(doneSaves) :
                /\ doneSaves[j].op = (IF c.op = "GetCurrent" THEN "SaveCurrent"
                                      ELSE "SaveForecast")
                /\ normalizeCity(doneSaves[j].city) = normalizeCity(c.city)
                /\ doneSaves[j].days = c.days}}

C25_NoExpiry ==
    [][/\ DOMAIN store.current \subseteq DOMAIN store.current'
       /\ DOMAIN store.forecast \subseteq DOMAIN store.forecast'
       /\ \A g \in Goroutines :
             (/\ gpc[g] = "read"
              /\ gpc'[g] # "read"
              /\ gcall[g].op \in {"GetCurrent", "GetForecast"}
              /\ SavedValues(gcall[g]) # {}) =>
                /\ gret'[g][2]
                /\ gret'[g][1] \in SavedValues(gcall[g])]_vars

\* a GetCurrent has found the entry of a completed save after another
\* operation on the store has completed too
C25_Witness ==
    \E g, h \in Goroutines :
       /\ gpc[g] = "done" /\ gcall[g].op = "GetCurrent"
       /\ gret[g][2] /\ gret[g][1] \in SavedValues(gcall[g])
       /\ gpc[h] = "done" /\ gcall[h].op = "LastFetchTimes"
       /\ DOMAIN gret[h] # {}

(***************************************************************************)
(* The scheduler under fair scheduling: a goroutine that can take a step   *)
(* of runOnce eventually takes it.  For the steps that are service calls   *)
(* this says that the call, and so every provider call in it, returns.     *)
(***************************************************************************)
RunOnceStep(t) ==
    \/ RunOnceSkip(t)
    \/ RunOnceEnter(t)
    \/ RunForCityGetCurrent(t)
    \/ RunForCitySaveCurrent(t)
    \/ RunForCityGetForecast(t)
    \/ RunForCitySaveForecast(t)
    \/ RunOnceReturn(t)

SpecFair == Spec /\ \A t \in Callers : WF_vars(RunOnceStep(t))

(***************************************************************************)
(* C26: every refresh cycle that enters Running returns the scheduler to   *)
(* Idle: a caller past the guard of runOnce eventually returns with the    *)
(* flag reset to 0, whatever its service calls returned, and the flag is 1 *)
(* only while a cycle is running, so that a later tick can start a cycle.  *)
(***************************************************************************)
C26_CycleReturnsToIdle ==
    /\ \A t \in Callers : (schedPc[t] \in InCycle) ~> (schedPc[t] = "done" /\ running = 0)
    /\ [](Cycling = {} => running = 0)

\* two cycles have run one after the other, the calls of the first city
\* failing in one of them, and the flag is 0
C26_Witness ==
    /\ \A t \in Callers : schedPc[t] = "done"
    /\ running = 0
    /\ skipped = 0
    /\ normalizeCity(cities[1]) \notin DOMAIN store.current

(***************************************************************************)
(* The application: the request handlers and one refresh cycle of the      *)
(* scheduler run concurrently on the one store and the one service of a    *)
(* deployment without API keys.                                            *)
(***************************************************************************)
InitApp == InitSched

NextApp ==
    \/ HandlerRequest
    \/ SvcSpawn
    \/ SvcSpawnCloser
    \/ \E i \in 1..Len(providers) : TaskFetch(i)
    \/ \E i \in 1..Len(providers) : TaskSend(i)
    \/ \E i \in 1..Len(providers) : TaskExit(i)
    \/ CloserClose
    \/ SvcReceive
    \/ SvcReturn
    \/ DeadlineExceeded
    \/ HandlerRespond
    \/ RunOnceEnter(StartCaller)
    \/ RunForCityGetCurrent(StartCaller)
    \/ RunForCitySaveCurrent(StartCaller)
    \/ RunForCityGetForecast(StartCaller)
    \/ RunForCitySaveForecast(StartCaller)
    \/ RunOnceReturn(StartCaller)

SpecApp == InitApp /\ [][NextApp]_vars

(***************************************************************************)
(* C27: a failed aggregation leaves the cache unchanged.  A handler whose  *)
(* service call returned an error, and the scheduler after a failed call,  *)
(* go on without touching the store; every step that changes the store is  *)
(* the save of a value a service call returned with a nil error.           *)
(***************************************************************************)
\* the values the service returns with a nil error for the call c
SuccessValues(c) == {o.value : o \in {q \in ServiceOutcomes(c) : q.err = Nil}}

\* this step is the save of a handler after a successful call
HandlerSaves ==
    /\ svcPc = "returned"
    /\ svcRet.err = Nil
    /\ svcRet.value \in SuccessValues(call)
    /\ store' = CacheSave(call, svcRet.value, now')

\* this step is the save of runForCity after a successful call
SchedulerSaves(t) ==
    \/ /\ schedPc[t] = "saveCurrent"
       /\ fetched[t] \in SuccessValues([op |-> "current", city |-> cities[cityIdx[t]],
                                        days |-> defaultDays])
       /\ store' = SaveCurrent(store, cities[cityIdx[t]], fetched[t], now')
    \/ /\ schedPc[t] = "saveForecast"
       /\ fetched[t] \in SuccessValues([op |-> "forecast", city |-> cities[cityIdx[t]],
                                        days |-> defaultDays])
       /\ store' = SaveForecast(store, cities[cityIdx[t]], defaultDays, fetched[t], now')

C27_FailedCallLeavesCache ==
    [][/\ (svcPc = "returned" /\ svcRet.err # Nil /\ svcPc' = "idle") => store' = store
       /\ \A t \in Callers :
             (/\ schedPc[t] \in {"current", "forecast"}
              /\ schedPc'[t] \notin {schedPc[t], "saveCurrent", "saveForecast"}) =>
                store' = store
       /\ store' # store => (HandlerSaves \/ \E t \in Callers : SchedulerSaves(t))]_vars

\* a handler has answered 503 after a failed call and a whole cycle of the
\* scheduler has failed: the store is as it was made
C27_Witness ==
    /\ http # None
    /\ http.status = StatusServiceUnavailable
    /\ schedPc[StartCaller] = "done"
    /\ svcCalls = 2 * Len(cities)
    /\ store = NewInMemoryStore

(***************************************************************************)
(* C28: within a refresh cycle the scheduler makes its aggregation calls   *)
(* one at a time: the calls made so far are an initial part of the list    *)
(* "current, forecast" per city in configured order, at most one caller of *)
(* runOnce is at a service call, and the forecast call of a city starts    *)
(* only after its current call has returned and its save, if the call      *)
(* succeeded, has been applied.                                            *)
(***************************************************************************)
\* the callers that are at a service call
AtServiceCall == {t \in Callers : schedPc[t] \in {"current", "forecast"}}

C28_OneCallAtATime ==
    /\ [](/\ Cardinality(AtServiceCall) <= 1
          /\ \A t \in Callers :
                /\ Len(attempted[t]) <= Len(AllCalls)
                /\ attempted[t] = SubSeq(AllCalls, 1, Len(attempted[t])))
    /\ [][\A t \in Callers :
             (schedPc'[t] = "forecast" /\ schedPc[t] # "forecast") =>
                \/ schedPc[t] = "current" /\ fetched'[t] = fetched[t] /\ store' = store
                \/ /\ schedPc[t] = "saveCurrent"
                   /\ store' = SaveCurrent(store, cities[cityIdx[t]], fetched[t], now')]_vars

\* the cycle is at the forecast call of the second city with the current
\* weather of both cities saved, and the other caller was turned away
C28_Witness ==
    \E t \in Callers :
       /\ schedPc[t] = "forecast"
       /\ cityIdx[t] = 2
       /\ attempted[t] = SubSeq(AllCalls, 1, 3)
       /\ DOMAIN store.current = {normalizeCity(cities[1]), normalizeCity(cities[2])}
       /\ skipped = NumCallers - 1

(***************************************************************************)
(* The concurrent definition of the Service called by a caller that holds  *)
(* a context with a deadline, under fair scheduling: a goroutine of the    *)
(* call that can take a step eventually takes one.  For the fetch of a     *)
(* provider task this says that the provider call returns.                 *)
(***************************************************************************)
\* a caller calls GetCurrentWeather / GetForecast with a live context
SvcCall ==
    \E op \in {"current", "forecast"}, city \in RequestCities, days \in RequestDays :
      LET c == [op |-> op, city |-> city, days |-> days]
      IN  /\ svcPc = "idle"
          /\ nReq < MaxRequests
          /\ nReq' = nReq + 1
          /\ call' = c
          /\ ctxReq' = "live"
          /\ resp' \in {r \in [1..Len(providers) -> UNION {Fetch(c, q) : q \in Range(providers)}] :
                         \A i \in 1..Len(providers) : r[i] \in Fetch(c, providers[i])}
          /\ collected' = [successes |-> <<>>, lastErr |-> Nil]
          /\ arrived' = <<>>
          /\ invoked' = [i \in 1..Len(providers) |-> 0]
          /\ IF NoProviders(providers)
             THEN /\ svcRet' = ServiceCall(op, providers, <<>>)
                  /\ svcPc' = "returned"
                  /\ UNCHANGED <<spawned, task, wg, closer, resultsCh, chClosed>>
             ELSE /\ svcPc' = "dispatch"
                  /\ svcRet' = None
                  /\ resultsCh' = <<>>
                  /\ chClosed' = FALSE
                  /\ spawned' = 0
                  /\ task' = [i \in 1..Len(providers) |-> "none"]
                  /\ wg' = 0
                  /\ closer' = "none"
          /\ UNCHANGED <<store, now, storeVars, aggVars, providers, startVars, histVars,
                         lockVars, heapVars, schedVars, http, rangeIdx>>

\* the caller has the result; the locals of the call are dead
SvcDone ==
    /\ svcPc = "returned"
    /\ SvcFrameGone
    /\ ctxReq' = "none"
    /\ UNCHANGED <<store, now, storeVars, aggVars, providers, startVars, histVars,
                   lockVars, heapVars, schedVars, http, nReq, invoked, rangeIdx>>

CallStep ==
    \/ SvcSpawn
    \/ SvcSpawnCloser
    \/ \E i \in 1..Len(providers) : TaskFetch(i)
    \/ \E i \in 1..Len(providers) : TaskSend(i)
    \/ \E i \in 1..Len(providers) : TaskExit(i)
    \/ CloserClose
    \/ SvcReceive
    \/ SvcReturn

NextCall ==
    \/ SvcCall
    \/ CallStep
    \/ DeadlineExceeded
    \/ SvcDone

SpecCallFair == InitService /\ [][NextCall]_vars /\ WF_vars(CallStep)

(***************************************************************************)
(* C29: the protocol of the results channel.  Each provider task sends     *)
(* exactly one result; the buffer has room for every result, so a task at  *)
(* its send is never blocked; the channel is closed once, after the last   *)
(* send; the range loop receives exactly one result per provider; and a    *)
(* call whose provider calls return, returns.                              *)
(***************************************************************************)
\* the results provider task i has sent so far: received or still buffered
SentBy(i) ==
    {k \in 1..(Len(arrived) + Len(resultsCh)) :
        (arrived \o resultsCh)[k].provider = providers[i]}

CallActive == svcPc \in {"dispatch", "collect", "returned"}

C29_ChannelProtocol ==
    /\ [](CallActive =>
            /\ \A i \in Configured :
                  /\ Cardinality(SentBy(i)) = (IF task[i] \in {"exit", "done"} THEN 1 ELSE 0)
                  /\ task[i] = "send" => (~chClosed /\ Len(resultsCh) < Len(providers))
            /\ Len(resultsCh) <= Len(providers)
            /\ chClosed <=> closer = "done"
            /\ chClosed => \A i \in Configured : task[i] = "done"
            /\ (svcPc = "returned" /\ ~NoProviders(providers)) =>
                  /\ chClosed
                  /\ resultsCh = <<>>
                  /\ Len(arrived) = Len(providers)
                  /\ \A i \in Configured : Cardinality(SentBy(i)) = 1)
    /\ [][chClosed => (chClosed' \/ svcPc' = "idle")]_vars
    /\ (svcPc \in {"dispatch", "collect"}) ~> (svcPc = "returned")

\* a call with three providers has returned after receiving the three
\* results in another order than the providers are configured in
C29_Witness ==
    /\ svcPc = "returned"
    /\ Len(providers) = 3
    /\ chClosed
    /\ Len(arrived) = 3
    /\ arrived[1].provider = providers[3]
    /\ arrived[3].provider = providers[1]

(***************************************************************************)
(* C30: cache-first serving.  A handler that finds the entry of its key in *)
(* the cache answers with that entry and neither calls the service nor     *)
(* writes the cache; it calls the service only when the key is missing,    *)
(* and the handlers write the cache only after a service call.             *)
(***************************************************************************)
\* the requests a handler may get
Requests ==
    {[op |-> op, city |-> city, days |-> days] :
       op \in {"current", "forecast"}, city \in RequestCities, days \in RequestDays}

\* what the store holds for the request c: (value, ok)
Cached(c) ==
    IF c.op = "current" THEN GetCurrent(store, c.city) ELSE GetForecast(store, c.city, c.days)

\* this step is a handler taking a request
TakesRequest == nReq' = nReq + 1

C30_CacheFirst ==
    [][/\ TakesRequest =>
             /\ store' = store
             /\ svcPc' = "idle" =>
                   /\ svcVars' = svcVars
                   /\ \E c \in Requests :
                         /\ Cached(c)[2]
                         /\ http' = [status |-> StatusOK, body |-> Cached(c)[1]]
             /\ svcPc' # "idle" => (call' \in Requests /\ ~Cached(call')[2])
       /\ (store' # store /\ schedPc' = schedPc) => svcPc = "returned"]_vars

\* two requests have been answered from the cache the scheduler filled:
\* the handlers never called the service
C30_Witness ==
    /\ nReq = 2
    /\ svcPc = "idle"
    /\ invoked = [i \in 1..Len(providers) |-> 0]
    /\ http # None
    /\ http.status = StatusOK
    /\ normalizeCity(Capitalised(Rio)) \in DOMAIN store.current
    /\ http.body = store.current[normalizeCity(Capitalised(Rio))]

(***************************************************************************)
(* C31: CurrentHistory(city, limit) and ForecastHistory(city, days, limit) *)
(* return the last `limit` stored snapshots in stored order when           *)
(* 0 < limit < length, all stored snapshots in stored order when           *)
(* limit <= 0 or limit >= length, and nothing for a key never saved.       *)
(***************************************************************************)
\* what a history read with this limit is to return, given all that was
\* saved for its key
Expected(log, limit) ==
    LET stored == Newest(log, maxHistoryEntries)
        n == Len(stored)
    IN  IF n = 0 THEN <<>>
        ELSE IF 0 < limit /\ limit < n
             THEN [i \in 1..limit |-> stored[n - limit + i]]
             ELSE stored

C31_HistoryLimit ==
    /\ ret.op = "CurrentHistory" => ret.value = Expected(saveLog.current, ret.limit)
    /\ ret.op = "ForecastHistory" => ret.value = Expected(saveLog.forecast, ret.limit)
    \* keys never saved: another city, and another day count of the saved city
    /\ \A limit \in Limits :
          /\ CurrentHistory(store, Oslo, limit) = <<>>
          /\ ForecastHistory(store, Oslo, defaultDays, limit) = <<>>
          /\ ForecastHistory(store, Rio, defaultDays + 1, limit) = <<>>

\* five forecasts were saved and ForecastHistory with limit 2 has returned
\* the fourth and the fifth
C31_Witness ==
    /\ ret.op = "ForecastHistory"
    /\ ret.limit = 2
    /\ Len(saveLog.forecast) = 5
    /\ Len(ret.value) = 2
    /\ ret.value[1] = saveLog.forecast[4]
    /\ ret.value[2] = saveLog.forecast[5]

(***************************************************************************)
(* C32: a save changes only its own key.  SaveCurrent for a city leaves    *)
(* the latest slot and the history of every other city and all forecast    *)
(* entries unchanged; SaveForecast for (city, days) leaves every other     *)
(* (city, days') pair and all current entries unchanged; the last-fetch    *)
(* time of the saved city is the only other entry written.                 *)
(***************************************************************************)
\* the two maps hold the same keys with the same values outside of k
SameExcept(m1, m2, k) ==
    /\ DOMAIN m1 \ {k} = DOMAIN m2 \ {k}
    /\ \A j \in DOMAIN m1 \ {k} : m1[j] = m2[j]

C32_SaveCurrentFrame ==
    LET key == normalizeCity(ret'.city)
    IN  /\ SameExcept(store.current, store'.current, key)
        /\ SameExcept(store.currentHistory, store'.currentHistory, key)
        /\ SameExcept(store.lastFetch, store'.lastFetch, key)
        /\ store'.lastFetch[key] = now'
        /\ store'.forecast = store.forecast
        /\ store'.forecastHistory = store.forecastHistory

C32_SaveForecastFrame ==
    LET normalizedCity == normalizeCity(ret'.city)
        key == forecastKey(normalizedCity, ret'.days)
    IN  /\ SameExcept(store.forecast, store'.forecast, key)
        /\ SameExcept(store.forecastHistory, store'.forecastHistory, key)
        /\ SameExcept(store.lastFetch, store'.lastFetch, normalizedCity)
        /\ store'.lastFetch[normalizedCity] = now'
        /\ store'.current = store.current
        /\ store'.currentHistory = store.currentHistory

C32_SaveFrame ==
    [][/\ (nSaves' = nSaves + 1 /\ ret'.op = "SaveCurrent") => C32_SaveCurrentFrame
       /\ (nSaves' = nSaves + 1 /\ ret'.op = "SaveForecast") => C32_SaveForecastFrame]_vars

\* a forecast was saved for a city under one day count, and the same city's
\* forecast for the other day count, saved before, is still what is stored
C32_Witness ==
    /\ ret.op = "SaveForecast"
    /\ ret.base = Rio
    /\ ret.days = 3
    /\ savedFc[<<Rio, 1>>] # None
    /\ GetForecast(store, Rio, 1) = <<savedFc[<<Rio, 1>>], TRUE>>
    /\ Len(HistoryOf(store.forecastHistory, forecastKey(normalizeCity(Rio), 1))) = 1

(***************************************************************************)
(* C33: for every saved key the latest slot equals the Data of the last    *)
(* (tail) history snapshot, a key is in a latest map exactly when its      *)
(* history is non-empty, and the city's last-fetch time was written by the *)
(* save that wrote that tail or by a later save for the same city.         *)
(***************************************************************************)
\* h[len(h)-1]
LastSnapshot(h) == h[Len(h)]

\* the latest map and the history map agree on every key
LatestIsTail(latest, history) ==
    /\ \A k \in DOMAIN latest \cup DOMAIN history :
          k \in DOMAIN latest <=> Len(HistoryOf(history, k)) > 0
    /\ \A k \in DOMAIN latest : latest[k] = LastSnapshot(history[k]).Data

\* the fetch times of the tail snapshots held for a city, over both kinds
TailTimes(s, c) ==
    {LastSnapshot(s.currentHistory[k]).At : k \in {j \in DOMAIN s.current : j = c}}
      \cup {LastSnapshot(s.forecastHistory[k]).At : k \in {j \in DOMAIN s.forecast : j.City = c}}

SavedKeysCities(s) == DOMAIN s.current \cup {k.City : k \in DOMAIN s.forecast}

\* saves are stamped with a clock that does not go back, so the stamp of the
\* last save for a city is the greatest among its tails
C33_LatestIsTail ==
    /\ LatestIsTail(store.current, store.currentHistory)
    /\ LatestIsTail(store.forecast, store.forecastHistory)
    /\ DOMAIN store.lastFetch = SavedKeysCities(store)
    /\ \A c \in DOMAIN store.lastFetch :
          /\ store.lastFetch[c] \in TailTimes(store, c)
          /\ \A t \in TailTimes(store, c) : store.lastFetch[c] >= t

\* a current save and then, at a later time, a forecast save for the same
\* city: the city's fetch time is the forecast's, later than the current tail
C33_Witness ==
    /\ ret.op = "SaveForecast"
    /\ ret.base = Rio
    /\ savedCur[Rio] # None
    /\ store.current[normalizeCity(Rio)] = savedCur[Rio]
    /\ LastSnapshot(store.currentHistory[normalizeCity(Rio)]).At = 0
    /\ store.lastFetch[normalizeCity(Rio)] = 1

(***************************************************************************)
(* The store shared by goroutines that run Scheduler.runForCity beside     *)
(* goroutines that call the store directly.  runForCity calls the service  *)
(* (providers and aggregation), and saves what a successful call returned; *)
(* the calls to the store run statement by statement under s.mu.           *)
(***************************************************************************)
\* the save runForCity makes when its service call succeeds
RunCall(op, g) ==
    [op |-> op, city |-> Capitalised(Rio),
     days |-> IF op = "SaveForecast" THEN defaultDays ELSE 0, limit |-> 0,
     value |-> IF op = "SaveForecast" THEN ForecastOf(g) ELSE WeatherOf(g),
     fetchedAt |-> None, caller |-> "runForCity"]

\* goroutine g runs runForCity
ByRunForCity(g) == gcall[g] # None /\ "caller" \in DOMAIN gcall[g]

\* runForCity calls s.service.GetCurrentWeather with the store lock taken
GoRunForCityLocked(g) ==
    /\ fatal = ""
    /\ gpc[g] = "idle"
    /\ mu.w = 0
    /\ mu' = Lock(mu).mu
    /\ gcall' = [gcall EXCEPT ![g] = RunCall("SaveCurrent", g)]
    /\ gpc' = [gpc EXCEPT ![g] = "fetch"]
    /\ UNCHANGED <<store, now, def, gret, fatal, doneSaves, otherVars>>

\* runForCity is called and calls s.service.GetCurrentWeather(ctx, city)
GoRunForCity(g) ==
    /\ fatal = ""
    /\ gpc[g] = "idle"
    /\ gcall' = [gcall EXCEPT ![g] = RunCall("SaveCurrent", g)]
    /\ gpc' = [gpc EXCEPT ![g] = "fetch"]
    /\ UNCHANGED <<store, now, def, mu, gret, fatal, doneSaves, otherVars>>

\* the service call returns: with a nil error the Save* call starts (its
\* time.Now() argument first); a failed current fetch is logged and the
\* forecast is fetched; a failed forecast fetch ends runForCity
GoFetchReturn(g) ==
    /\ fatal = ""
    /\ gpc[g] = "fetch"
    /\ \E ok \in BOOLEAN :
          IF ok
          THEN /\ gpc' = [gpc EXCEPT ![g] = Program(def, gcall[g].op)[1]]
               /\ UNCHANGED gcall
          ELSE IF gcall[g].op = "SaveCurrent"
          THEN /\ gcall' = [gcall EXCEPT ![g] = RunCall("SaveForecast", g)]
               /\ UNCHANGED gpc
          ELSE /\ gpc' = [gpc EXCEPT ![g] = "done"]
               /\ UNCHANGED gcall
    /\ UNCHANGED <<store, now, def, mu, gret, fatal, doneSaves, otherVars>>

\* SaveCurrent has returned: runForCity calls s.service.GetForecast
GoFetchForecast(g) ==
    /\ fatal = ""
    /\ gpc[g] = "done"
    /\ ByRunForCity(g)
    /\ gcall[g].op = "SaveCurrent"
    /\ gcall' = [gcall EXCEPT ![g] = RunCall("SaveForecast", g)]
    /\ gpc' = [gpc EXCEPT ![g] = "fetch"]
    /\ UNCHANGED <<store, now, def, mu, gret, fatal, doneSaves, otherVars>>

NextLock ==
    \/ \E g \in Goroutines : GoCall(g)
    \/ \E g \in Goroutines : GoRunForCity(g)
    \/ \E g \in Goroutines : GoFetchReturn(g)
    \/ \E g \in Goroutines : GoFetchForecast(g)
    \/ \E g \in Goroutines : GoTimeNow(g)
    \/ \E g \in Goroutines : GoLock(g)
    \/ \E g \in Goroutines : GoLockWake(g)
    \/ \E g \in Goroutines : GoRLock(g)
    \/ \E g \in Goroutines : GoRLockWake(g)
    \/ \E g \in Goroutines : GoWrite(g)
    \/ \E g \in Goroutines : GoRead(g)
    \/ \E g \in Goroutines : GoUnlock(g)
    \/ \E g \in Goroutines : GoRUnlock(g)

SpecLock == InitCache /\ [][NextLock]_vars

(***************************************************************************)
(* C34: the store's read-write lock gives mutual exclusion.  While a       *)
(* SaveCurrent / SaveForecast is inside its critical section no other save *)
(* and no read is inside one; reads may be inside together; and a          *)
(* goroutine calling the service (providers, aggregation) holds no part of *)
(* the store lock: the lock is held only by goroutines inside a store      *)
(* operation.                                                              *)
(***************************************************************************)
\* between s.mu.Lock() returning and the deferred Unlock
InsideSave(g) == gpc[g] \in {"latest", "lastFetch", "history", "Unlock"}

\* between s.mu.RLock() returning and the deferred RUnlock
InsideRead(g) == gpc[g] \in {"read", "RUnlock"}

\* the readers rw.readerCount stands for
ReadersOf(m) ==
    IF m.readerCount < 0 THEN m.readerCount + rwmutexMaxReaders ELSE m.readerCount

C34_MutualExclusion ==
    /\ \A g \in Goroutines :
          InsideSave(g) =>
              \A h \in Goroutines \ {g} : ~InsideSave(h) /\ ~InsideRead(h)
    \* rw.w and rw.readerCount are held by goroutines inside a store
    \* operation (or asleep in its Lock / RLock), never by one at a service call
    /\ mu.w = 1 <=> \E g \in Goroutines : InsideSave(g) \/ gpc[g] = "LockSem"
    /\ ReadersOf(mu) =
          Cardinality({g \in Goroutines : InsideRead(g) \/ gpc[g] = "RLockSem"})
    /\ (\A g \in Goroutines : gpc[g] \in {"idle", "fetch", "now", "done"})
          => mu = ZeroRWMutex

\* a save of runForCity has gone through its critical section and two reads
\* are inside theirs together
C34_Witness ==
    /\ Len(doneSaves) = 1
    /\ "caller" \in DOMAIN doneSaves[1]
    /\ \E g, h \in Goroutines : g # h /\ gpc[g] = "read" /\ gpc[h] = "read"

(***************************************************************************)
(* The history slices in memory.  A slice is a header (array, offset,      *)
(* length, capacity) over a backing array; heap[a] is the array at address *)
(* a (<<>> when the address is free).  held.hist is s.currentHistory[key]  *)
(* (or s.forecastHistory[key], by held.kind) and held.res the slice the    *)
(* caller of CurrentHistory / ForecastHistory was given and keeps;         *)
(* held.growth is how the build's append grows an array.                   *)
(***************************************************************************)
NilSlice == [addr |-> 0, off |-> 0, len |-> 0, cap |-> 0]

\* the elements of slice s
Elems(hp, s) == [i \in 1..s.len |-> hp[s.addr][s.off + i]]

\* s[lo:]
SliceFrom(s, lo) == [s EXCEPT !.off = @ + lo, !.len = @ - lo, !.cap = @ - lo]

\* the address a new array gets: a free one, or one past the last
Alloc(hp) ==
    IF \E a \in 1..Len(hp) : hp[a] = <<>>
    THEN CHOOSE a \in 1..Len(hp) : hp[a] = <<>> /\ \A b \in 1..(a - 1) : hp[b] # <<>>
    ELSE Len(hp) + 1

Place(hp, a, arr) == IF a = Len(hp) + 1 THEN Append(hp, arr) ELSE [hp EXCEPT ![a] = arr]

\* arrays no slice refers to are collected
Free(hp, live) == [a \in 1..Len(hp) |-> IF a \in live THEN hp[a] ELSE <<>>]

\* the capacity append gives a new array that is to hold n elements: the
\* language leaves it open; "double" is the growth of the gc runtime for
\* short slices, "exact" the least the language allows
Growths == {"exact", "double"}

NewCap(growth, n) == IF growth = "double" /\ n > 1 THEN 2 * (n - 1) ELSE n

\* append(s, x): in place while the capacity lasts, else into a new array of
\* capacity c
append(hp, s, x, c, zero) ==
    IF s.len < s.cap
    THEN [heap |-> [hp EXCEPT ![s.addr][s.off + s.len + 1] = x],
          slice |-> [s EXCEPT !.len = @ + 1]]
    ELSE LET a == Alloc(hp)
             arr == [i \in 1..c |-> IF i <= s.len THEN Elems(hp, s)[i]
                                    ELSE IF i = s.len + 1 THEN x ELSE zero]
         IN  [heap |-> Place(hp, a, arr),
              slice |-> [addr |-> a, off |-> 0, len |-> s.len + 1, cap |-> c]]

\* make([]T, n)
make(hp, n, zero) ==
    LET a == Alloc(hp)
    IN  [heap |-> Place(hp, a, [i \in 1..n |-> zero]),
         slice |-> [addr |-> a, off |-> 0, len |-> n, cap |-> n]]

\* copy(dst, src)
copy(hp, dst, src) ==
    LET n == IF dst.len < src.len THEN dst.len ELSE src.len
    IN  [hp EXCEPT ![dst.addr] =
            [i \in 1..Len(@) |-> IF i > dst.off /\ i <= dst.off + n
                                 THEN Elems(hp, src)[i - dst.off]
                                 ELSE @[i]]]

\* a history read that returns h, or h[len(h)-limit:], itself
LastNShared(hp, h, limit, zero) ==
    IF h.len = 0 THEN [heap |-> hp, slice |-> NilSlice]
    ELSE IF limit <= 0 \/ limit >= h.len THEN [heap |-> hp, slice |-> h]
    ELSE [heap |-> hp, slice |-> SliceFrom(h, h.len - limit)]

\* the body of CurrentHistory / ForecastHistory on the slice h
LastNCopy(hp, h, limit, zero) ==
    IF h.len = 0 THEN [heap |-> hp, slice |-> NilSlice]
    ELSE IF limit <= 0 \/ limit >= h.len
    THEN LET res == make(hp, h.len, zero)
         IN  [heap |-> copy(res.heap, res.slice, h), slice |-> res.slice]
    ELSE LET res == make(hp, limit, zero)
         IN  [heap |-> copy(res.heap, res.slice, SliceFrom(h, h.len - limit)),
              slice |-> res.slice]

Kinds == {"current", "forecast"}

ZeroSnapshot(kind) ==
    IF kind = "current" THEN CurrentSnapshot(0, ZeroCurrentWeather)
    ELSE ForecastSnapshot(0, 0, ZeroForecast)

\* the n-th value saved, and a value no save has
SavedValue(kind, n) ==
    IF kind = "current" THEN CurrentWeather(Rio, n, 40, 3, SourceOpenMeteo)
    ELSE Forecast(Rio, defaultDays, <<ForecastItem(0, n, SourceOpenMeteo)>>)

SnapshotOf(kind, t, v) ==
    IF kind = "current" THEN CurrentSnapshot(t, v) ELSE ForecastSnapshot(t, defaultDays, v)

StoredHistory(kind) ==
    IF kind = "current" THEN HistoryOf(store.currentHistory, normalizeCity(Rio))
    ELSE HistoryOf(store.forecastHistory, forecastKey(normalizeCity(Rio), defaultDays))

\* nothing saved: the history is the nil slice, and the caller holds none
InitCopy ==
    /\ store = NewInMemoryStore
    /\ now = 0
    /\ InitStoreVars
    /\ InitAggVars
    /\ providers = <<>>
    /\ InitSvcVars
    /\ InitApiVars
    /\ InitSchedVars
    /\ InitStartVars
    /\ InitHistVars
    /\ def = "second"
    /\ InitLockVars
    /\ heap = <<>>
    /\ held \in {[kind |-> k, growth |-> g, hist |-> NilSlice, res |-> NilSlice] :
                    k \in Kinds, g \in Growths}

\* SaveCurrent / SaveForecast: h = append(h, snapshot), the trim to the last
\* maxHistoryEntries, and s.currentHistory[key] = h
CopySave ==
    LET kind == held.kind
        v == SavedValue(kind, nSaves + 1)
        x == SnapshotOf(kind, now, v)
    IN  /\ nSaves < MaxHistSaves
        /\ store' = IF kind = "current"
                    THEN SaveCurrent(store, Capitalised(Rio), v, now)
                    ELSE SaveForecast(store, Capitalised(Rio), defaultDays, v, now)
        /\ \E c \in {NewCap(held.growth, held.hist.len + 1)} :
              LET r == append(heap, held.hist, x, c, ZeroSnapshot(kind))
                  h == IF r.slice.len > maxHistoryEntries
                       THEN SliceFrom(r.slice, r.slice.len - maxHistoryEntries)
                       ELSE r.slice
              IN  /\ heap' = Free(r.heap, {h.addr, held.res.addr})
                  /\ held' = [held EXCEPT !.hist = h]
        /\ nSaves' = nSaves + 1
        /\ UNCHANGED <<ret, now, savedCur, savedFc, aggVars, providers, svcVars, apiVars,
                       schedVars, startVars, histVars, lockVars>>

\* CurrentHistory / ForecastHistory, called once: the caller keeps the slice
\* returned; ret records what it held when it was returned
CopyHistory ==
    \E limit \in Limits :
      LET kind == held.kind
          r == LastNCopy(heap, held.hist, limit, ZeroSnapshot(kind))
      IN  /\ ret.op = "none"
          /\ heap' = Free(r.heap, {held.hist.addr, r.slice.addr})
          /\ held' = [held EXCEPT !.res = r.slice]
          /\ ret' = [op |-> IF kind = "current" THEN "CurrentHistory" ELSE "ForecastHistory",
                     limit |-> limit,
                     value |-> IF kind = "current"
                               THEN CurrentHistory(store, Rio, limit)
                               ELSE ForecastHistory(store, Rio, defaultDays, limit),
                     savesBefore |-> nSaves, written |-> FALSE]
          /\ UNCHANGED <<store, now, savedCur, savedFc, nSaves, aggVars, providers, svcVars,
                         apiVars, schedVars, startVars, histVars, lockVars>>

\* the caller: res[i] = x on the slice it holds
CopyCallerWrites ==
    \E i \in {1, held.res.len} :
      LET x == SnapshotOf(held.kind, MaxTime + 1, SavedValue(held.kind, 0))
      IN  /\ held.res.len > 0
          /\ ~ret.written
          /\ heap' = [heap EXCEPT ![held.res.addr][held.res.off + i] = x]
          /\ ret' = [ret EXCEPT !.value[i] = x, !.written = TRUE]
          /\ UNCHANGED <<store, now, savedCur, savedFc, nSaves, aggVars, providers, svcVars,
                         apiVars, schedVars, startVars, histVars, lockVars, held>>

NextCopy ==
    \/ CopySave
    \/ CopyHistory
    \/ CopyCallerWrites

SpecCopy == InitCopy /\ [][NextCopy]_vars

TickDue == nTicks' = nTicks + 1

\* Start takes a tick from ticker.C
TickReceived == tickerC /\ ~tickerC'

C36_Guard ==
    /\ \A t \in Callers : schedPc[t] = "idle" => CompareAndSwapInt32(running, 0, 1).swapped
    /\ \A t \in Callers : schedPc[t] # "skipped"
    /\ \A t \in Callers \ {StartCaller} : schedPc[t] = "none"
    /\ skipped = 0
    /\ startPc = "select" => schedPc[StartCaller] = "none" /\ running = 0

C36_Ticks ==
    /\ TickReceived => startPc = "select" /\ running = 0 /\ startPc' = "runOnce"
    /\ TickDue => /\ tickerC'
                  /\ UNCHANGED <<schedVars, startPc, store>>

====
